---- MODULE Spec2Model ----
(***************************************************************************)
(* Model of the Legion toolkit hardware control plane:                     *)
(*   automation/auto_listeners.py   listeners, AutomationManager           *)
(*   hardware/rgb_controller.py     LinuxRGBController                     *)
(*   hardware/gpu_controller.py     LinuxGPUController                     *)
(*   features/battery_manager.py    BatteryManager                         *)
(*   cli/legion_toolkit_cli.py      LegionToolkitCLI                       *)
(*   legion_toolkit/config.py       ConfigManager                          *)
(*                                                                         *)
(* All coroutines of one AutomationManager run on one asyncio event loop.  *)
(* A task keeps the loop from the moment it is resumed until it reaches an *)
(* await that really suspends (asyncio.sleep, awaiting another task).      *)
(* `cur` is the task that holds the loop.  subprocess.run and open/write   *)
(* block the loop, they do not suspend the task.                           *)
(***************************************************************************)
EXTENDS Integers, Sequences, FiniteSets, TLC

VARIABLES
    dev,          \* device: control file name -> value last stored by the driver
    brightness,   \* LinuxRGBController.brightness
    app,          \* per task: the profile application it is executing
    cur,          \* the task holding the event loop, or "none"
    alog,         \* record of the application started last (what it wrote, what it returned)
    faults,       \* number of device write failures that have happened
    napplies,     \* number of direct apply_profile calls made
    \* the environment the listeners observe
    procs,        \* names of the running processes psutil.process_iter yields
    cpuHigh,      \* the process of the process trigger runs above its cpu_threshold
    network,      \* SSID _get_current_wifi_network returns, "none" for None
    idle,         \* _get_idle_time() >= idle_threshold
    due,          \* time triggers whose time has been reached since run_pending ran, in order
    nevents,      \* number of changes of the environment so far
    \* the listeners
    running,          \* listeners whose monitoring task runs
    current_game,     \* GameAutoListener.current_game, "none" for None
    current_network,  \* WiFiAutoListener.current_network, "none" for None
    is_idle,          \* UserInactivityAutoListener.is_idle
    pending,          \* profiles of the created time-trigger tasks not yet run
    seen,             \* per polling listener: the candidate its previous poll observed
    \* LinuxGPUController
    current_settings,  \* LinuxGPUController.current_settings
    ctl,               \* record of the latest call of a controller method
    \* BatteryManager
    settings,                   \* BatteryManager.settings
    conservation_active,        \* BatteryManager.conservation_active
    original_charge_threshold,  \* BatteryManager.original_charge_threshold, 0 for None
    config_file,                \* ~/.config/legion-toolkit/battery.json
    battery_charge_threshold,   \* the control file battery_charge_threshold
    bcall,                      \* record of the latest set_charge_threshold call
    \* the monitoring loops and the coroutine that starts and stops them
    monitoring_task,  \* per monitor: the state of the task self.monitoring_task refers to
    enabled,          \* per listener self.enabled, for the battery self.monitoring_active
    loops,            \* per monitor: the monitoring loop tasks created and not finished
    stopper,          \* the coroutine that calls start_monitoring and stop_monitoring
    \* observation of the inactivity listener
    detections,       \* the latest readings `idle_time >= idle_threshold` of its polls
    \* ConfigManager
    cm,               \* the ConfigManager in use and the config.json of its directory
    \* AutomationManager
    mgr,              \* automation.json, the triggers and the schedule jobs of the time listener
    \* one check_triggers of the GameAutoListener on a process list
    sel,              \* running_processes, current_game and what check_triggers made of them
    \* BatteryManager: conservation mode enabled and disabled again
    trip,             \* what the latest enable_conservation_mode that returned True found
    \* LinuxRGBController: custom animations
    anim              \* animation_running, animation_task, the animation tasks created and
                      \* the task each caller inside stop_animation awaits

appVars == <<dev, brightness, app, cur, alog, faults, napplies>>

envVars == <<procs, cpuHigh, network, idle, due, nevents>>

lsnVars == <<running, current_game, current_network, is_idle, pending, seen>>

ctlVars == <<current_settings, ctl>>

batVars == <<settings, conservation_active, original_charge_threshold, config_file,
             battery_charge_threshold, bcall>>

lifeVars == <<monitoring_task, enabled, loops, stopper>>

vars == <<appVars, envVars, lsnVars, ctlVars, batVars, lifeVars, detections, cm, mgr, sel, trip, anim>>

----------------------------------------------------------------------------
(* Bounds of the model *)

\* device write failures in one behaviour
MaxFaults == 1
\* direct apply_profile calls in one behaviour
MaxApplies == 2
\* calls of start_monitoring, stop_monitoring and stop_all_listeners in one
\* behaviour
MaxCalls == 2
\* changes of the environment in one behaviour
MaxEvents == 2
\* seconds that pass between the saves of one behaviour
MaxClock == 11
\* processes psutil.process_iter yields in one check_triggers
MaxProcs == 3
\* calls of start_custom_animation in one behaviour
MaxAnimations == 3
\* frames one animation task shows
MaxFrames == 2

----------------------------------------------------------------------------
(* AutomationProfile and the profile table *)

\* the defaults of the dataclass fields
AutomationProfile(name) ==
    [ name |-> name, performance_mode |-> "balanced",
      cpu_pl1 |-> 45, cpu_pl2 |-> 115, gpu_tgp |-> 115,
      fan1_target |-> 50, fan2_target |-> 50,
      rgb_mode |-> "breathing", rgb_color |-> "#00FF00", rgb_brightness |-> 75,
      ai_optimization |-> TRUE, custom_settings |-> << >> ]

\* AutomationManager._load_default_profiles
DefaultProfiles ==
    [ default |-> AutomationProfile("default"),
      gaming_performance |->
        [ AutomationProfile("gaming_performance") EXCEPT
            !.performance_mode = "performance",
            !.cpu_pl1 = 55, !.cpu_pl2 = 140, !.gpu_tgp = 140,
            !.fan1_target = 80, !.fan2_target = 80,
            !.rgb_mode = "wave", !.rgb_color = "#FF0000", !.rgb_brightness = 100 ],
      gaming_extreme |->
        [ AutomationProfile("gaming_extreme") EXCEPT
            !.performance_mode = "custom",
            !.cpu_pl1 = 55, !.cpu_pl2 = 140, !.gpu_tgp = 140,
            !.fan1_target = 100, !.fan2_target = 100,
            !.rgb_mode = "rainbow", !.rgb_brightness = 100 ],
      quiet |->
        [ AutomationProfile("quiet") EXCEPT
            !.performance_mode = "quiet",
            !.cpu_pl1 = 35, !.cpu_pl2 = 90, !.gpu_tgp = 80,
            !.fan1_target = 30, !.fan2_target = 30,
            !.rgb_color = "#0000FF", !.rgb_brightness = 50,
            !.ai_optimization = FALSE ] ]

\* profiles of the "profiles" section of automation.json, which
\* load_configuration turns into AutomationProfile(**profile_data) unchecked
ConfigProfiles ==
    [ overclock |->
        [ AutomationProfile("overclock") EXCEPT
            !.performance_mode = "performance",
            !.cpu_pl1 = 55, !.cpu_pl2 = 200, !.gpu_tgp = 140,
            !.fan1_target = 80, !.fan2_target = 80,
            !.rgb_mode = "static", !.rgb_color = "#FF0000", !.rgb_brightness = 100,
            !.ai_optimization = FALSE,
            !.custom_settings = << <<"turbo_boost", 1>> >> ],
      showroom |->
        [ AutomationProfile("showroom") EXCEPT
            !.rgb_mode = "static", !.rgb_color = "#FFFFFF", !.rgb_brightness = 150,
            !.ai_optimization = FALSE ],
      tuned |->
        [ AutomationProfile("tuned") EXCEPT
            !.custom_settings = << <<"turbo_boost", 0>> >> ] ]

\* listener.profiles after AutomationManager.__init__ and load_configuration
\* (every profile is added to every listener, so one table serves them all)
Profiles ==
    [ n \in DOMAIN DefaultProfiles \cup DOMAIN ConfigProfiles |->
        IF n \in DOMAIN DefaultProfiles THEN DefaultProfiles[n] ELSE ConfigProfiles[n] ]

\* names apply_profile is called with; "gaming_launcher" is the profile the
\* game database names for steam.exe, which no profile table holds
ProfileNames == DOMAIN Profiles \cup {"gaming_launcher"}

----------------------------------------------------------------------------
(* The device *)

\* the parameters _apply_hardware_profile writes through _write_kernel_param, in order
KernelParams ==
    <<"performance_mode", "cpu_pl1", "cpu_pl2", "gpu_tgp", "fan1_target", "fan2_target">>

KernelParamSet == { KernelParams[i] : i \in 1..Len(KernelParams) }

\* the control files of /sys/kernel/legion_laptop the model tracks
DeviceParams == KernelParamSet \cup {"rgb_mode", "rgb_brightness"}

ThermalParams == {"cpu_pl1", "cpu_pl2", "gpu_tgp", "fan1_target", "fan2_target"}

\* the value a profile specifies for a device parameter
Target(p, n) ==
    CASE n = "performance_mode" -> p.performance_mode
      [] n = "cpu_pl1" -> p.cpu_pl1
      [] n = "cpu_pl2" -> p.cpu_pl2
      [] n = "gpu_tgp" -> p.gpu_tgp
      [] n = "fan1_target" -> p.fan1_target
      [] n = "fan2_target" -> p.fan2_target
      [] n = "rgb_mode" -> p.rgb_mode
      [] n = "rgb_brightness" -> p.rgb_brightness

\* the declared domains: LegionToolkitCLI.set_power_limit / set_fan_speed,
\* LinuxRGBController.set_brightness
\* a variant of InDomain whose ranges exclude their upper limit
InDomainBelowLimit(n, v) ==
    CASE n = "cpu_pl1" -> 15 <= v /\ v < 55
      [] n = "cpu_pl2" -> 55 <= v /\ v < 140
      [] n = "gpu_tgp" -> 60 <= v /\ v < 140
      [] n = "fan1_target" -> 0 <= v /\ v < 100
      [] n = "fan2_target" -> 0 <= v /\ v < 100
      [] n = "rgb_brightness" -> 0 <= v /\ v < 100
      [] OTHER -> TRUE

InDomain(n, v) ==
    CASE n = "cpu_pl1" -> 15 <= v /\ v <= 55
      [] n = "cpu_pl2" -> 55 <= v /\ v <= 140
      [] n = "gpu_tgp" -> 60 <= v /\ v <= 140
      [] n = "fan1_target" -> 0 <= v /\ v <= 100
      [] n = "fan2_target" -> 0 <= v /\ v <= 100
      [] n = "rgb_brightness" -> 0 <= v /\ v <= 100
      [] OTHER -> TRUE

\* the device before the first application: the kernel parameters hold the
\* AutomationProfile defaults, the RGB files what LinuxRGBController.initialize wrote
BootDevice ==
    [ n \in DeviceParams |->
        CASE n = "performance_mode" -> "balanced"
          [] n = "cpu_pl1" -> 45
          [] n = "cpu_pl2" -> 115
          [] n = "gpu_tgp" -> 115
          [] n = "fan1_target" -> 50
          [] n = "fan2_target" -> 50
          [] n = "rgb_mode" -> "static"
          [] n = "rgb_brightness" -> 75 ]

----------------------------------------------------------------------------------------------------------------------------------------
(* What the listeners are configured with *)

\* GameAutoListener._load_game_database, the entries of the processes in GameProcs
game_database ==
    [ p \in {"cyberpunk2077.exe", "valorant.exe", "blender.exe", "code.exe", "steam.exe",
             "steamwebhelper.exe", "unrealengine.exe"} |->
        CASE p = "cyberpunk2077.exe" -> [ type |-> "game", profile |-> "gaming_extreme" ]
          [] p = "valorant.exe" -> [ type |-> "game", profile |-> "gaming_esports" ]
          [] p = "blender.exe" -> [ type |-> "creative", profile |-> "workstation_gpu" ]
          [] p = "code.exe" -> [ type |-> "development", profile |-> "development_light" ]
          [] p = "steam.exe" -> [ type |-> "launcher", profile |-> "gaming_launcher" ]
          [] p = "steamwebhelper.exe" -> [ type |-> "helper", profile |-> "None" ]
          [] p = "unrealengine.exe" -> [ type |-> "engine", profile |-> "gaming_performance" ] ]

\* the processes that start and stop while the listeners run
GameProcs == {"cyberpunk2077.exe", "steam.exe"}

\* priority_order of GameAutoListener.check_triggers
priority_order == <<"game", "creative", "development", "launcher">>

\* the triggers the example main() adds
TimeTriggers == [ t1800 |-> "gaming_performance", t2300 |-> "quiet" ]

WifiTriggers == [ OfficeNetwork |-> "quiet" ]

IdleTriggers == [ idle |-> "quiet", active |-> "default" ]

\* a trigger added with add_process_trigger(process_name, profile)
ProcessTrigger == [ process_name |-> "blender", profile |-> "gaming_performance" ]

\* the listeners whose loop polls check_triggers and applies from it
PollingListeners == {"game", "process", "wifi", "inactivity"}

\* detected_games of check_triggers: known processes with a profile
Detected(ps) == { p \in ps : p \in DOMAIN game_database /\ game_database[p].profile # "None" }

TypesDetected(ps) ==
    { i \in 1..Len(priority_order) :
        \E p \in Detected(ps) : game_database[p].type = priority_order[i] }

\* best_game of check_triggers: a detected process of the first type of
\* priority_order that has one (GameProcs holds one process per type)
best_game(ps) ==
    LET i == CHOOSE k \in TypesDetected(ps) : \A m \in TypesDetected(ps) : k <= m
    IN  CHOOSE p \in Detected(ps) : game_database[p].type = priority_order[i]

\* proc['name'].lower() of the names psutil reports in the model
lower(n) == IF n = "Valorant.exe" THEN "valorant.exe" ELSE n

\* detected_games of check_triggers for the list running_processes, in its
\* order: the lowered names that are in the database with a profile
detected_games(running_processes) ==
    SelectSeq([ i \in 1..Len(running_processes) |-> lower(running_processes[i]) ],
              LAMBDA n : n \in DOMAIN game_database /\ game_database[n].profile # "None")

\* a variant of BestGame that takes the first detected process whatever
\* its type
BestGameFirstDetected(detected, order) ==
    IF detected = << >> THEN "none" ELSE Head(detected)

\* best_game of check_triggers: for each type of order in turn, the first
\* detected process of that type; "none" for None
RECURSIVE BestGame(_, _)
BestGame(detected, order) ==
    IF order = << >>
      THEN "none"
      ELSE LET same == SelectSeq(detected, LAMBDA g : game_database[g].type = Head(order))
           IN  IF same # << >> THEN Head(same) ELSE BestGame(detected, Tail(order))

----------------
(* Tasks of the event loop *)

Listeners == {"game", "process", "time", "wifi", "inactivity"}

\* the tasks TimeAutoListener._time_trigger_callback creates with asyncio.create_task
TimeTaskNames == <<"timetask1", "timetask2", "timetask3", "timetask4">>

\* time-trigger tasks that exist at once
MaxTimeTasks == 2

TimeTasks == { TimeTaskNames[i] : i \in 1..MaxTimeTasks }

\* the tasks that can run BaseAutoListener.apply_profile: the monitoring loops
\* whose check_triggers applies a profile, the time-trigger tasks, and "main",
\* a coroutine that calls apply_profile directly
Appliers == {"main", "game", "process", "wifi", "inactivity"} \cup TimeTasks

\* the objects that own a monitoring loop: the five listeners of the
\* AutomationManager and the BatteryManager
Monitors == Listeners \cup {"battery"}

\* a variant of StopOrder in which the loop over the listeners ends after the
\* second one
StopOrderCutShort == <<"game", "process">>

\* AutomationManager.listeners in the order __init__ fills the dict
StopOrder == <<"game", "process", "time", "wifi", "inactivity">>

\* the coroutine that starts and stops the monitors:
\*   pc        "await" while it is suspended in `await self.monitoring_task`
\*   target    the monitor whose task it awaits
\*   rest      the listeners stop_all_listeners has still to stop
\*   ahead     tasks created before the cancellation that the event loop runs
\*             before the cancelled task
\*   queued    the value of ahead when the latest cancellation was requested
\*   all       the call in progress is stop_all_listeners
\*   returned  monitors whose stop_monitoring has returned, not started since
\*   done_all  stop_all_listeners has returned, no listener started since
\*   cut       monitors whose loop was cancelled inside a profile application
\*   calls     number of calls made
\*   last      the latest call: method, monitor, state of the monitor before it
NoStopper ==
    [ pc |-> "idle", target |-> "none", rest |-> << >>, ahead |-> 0,
      queued |-> 0, all |-> FALSE, returned |-> {}, done_all |-> FALSE, cut |-> {},
      calls |-> 0, last |-> <<"none", "none", "none">> ]

\* the monitoring task of t has been cancelled and has not run since
Cancelling(t) == t \in Listeners /\ monitoring_task[t] = "cancelling"

\* a task that is not applying a profile
Idle == [ active |-> FALSE, prof |-> "none", pc |-> 0, aborted |-> FALSE ]

\* the record kept of one application:
\*   pre        the device when apply_profile was entered
\*   attempted  the parameters whose setter was called, in order
\*   issued     the parameters for which the setter reached the device
\*              (ran the subprocess, opened the control file)
\*   failed     the parameters whose setter did not store the value
\*   raisedBy   the parameter whose setter raised into _apply_hardware_profile
\*   left       the device when apply_profile returned
\*   ret        the value apply_profile returned
\*   holder     the task of the latest application that reached
\*              _apply_hardware_profile, and
\*   held       the profile it applied
\*   replaced   the game-detection profile in force for the running game when
\*              this application started, "none" if there was none
\*   repeat     the poll that started this application observed the candidate
\*              the previous poll of the same listener had observed
NoLog ==
    [ task |-> "none", prof |-> "none", pre |-> BootDevice, attempted |-> << >>,
      issued |-> << >>, failed |-> {}, raisedBy |-> "none", left |-> BootDevice,
      status |-> "none", ret |-> FALSE,
      holder |-> "none", held |-> "none", replaced |-> "none", repeat |-> FALSE ]

----------------------------------------------------------------------------
(* AutomationManager._apply_hardware_profile as a straight-line program *)

Instr(op, n, v) == [ op |-> op, param |-> n, value |-> v ]

\* LinuxAIController.monitoring_active: set to False in __init__ and assigned
\* nowhere else
ai_monitoring_active == FALSE

\* a variant of Program that calls the RGB setters before the kernel writes
ProgramRgbFirst(p) ==
    << Instr("set_mode", "rgb_mode", p.rgb_mode),
       Instr("set_brightness", "rgb_brightness", p.rgb_brightness) >>
    \o (IF p.rgb_mode \in {"static", "breathing"}
          THEN << Instr("set_static_color", "rgb_color", p.rgb_color) >>
          ELSE << >>)
    \o [ i \in 1..Len(KernelParams) |->
           Instr("kernel", KernelParams[i], Target(p, KernelParams[i])) ]
    \o (IF p.ai_optimization /\ ~ai_monitoring_active
          THEN << Instr("ai_start_monitoring", "none", "none") >>
          ELSE << >>)
    \o [ i \in 1..Len(p.custom_settings) |->
           Instr("kernel", p.custom_settings[i][1], p.custom_settings[i][2]) ]

\* the calls one application makes, in the order of the source
Program(p) ==
    [ i \in 1..Len(KernelParams) |->
        Instr("kernel", KernelParams[i], Target(p, KernelParams[i])) ]
    \o << Instr("set_mode", "rgb_mode", p.rgb_mode),
          Instr("set_brightness", "rgb_brightness", p.rgb_brightness) >>
    \o (IF p.rgb_mode \in {"static", "breathing"}
          THEN << Instr("set_static_color", "rgb_color", p.rgb_color) >>
          ELSE << >>)
    \o (IF p.ai_optimization /\ ~ai_monitoring_active
          THEN << Instr("ai_start_monitoring", "none", "none") >>
          ELSE << >>)
    \o [ i \in 1..Len(p.custom_settings) |->
           Instr("kernel", p.custom_settings[i][1], p.custom_settings[i][2]) ]

\* a variant of Yields in which _write_kernel_param awaits its subprocess
YieldsAtKernelWrite(instr) == instr.op = "kernel"

\* whether executing the call gives the event loop to other tasks.
\* _write_kernel_param runs subprocess.run, the RGB setters run open/write:
\* both block the loop and contain no await that suspends.
Yields(instr) == FALSE

\* results of subprocess.run(['sudo','sh','-c','echo v > path'], check=True, timeout=5)
KernelResults == {"ok", "CalledProcessError", "TimeoutExpired", "FileNotFoundError"}

\* sysfs creates no file: the write of a name the driver does not export
\* ends with a non-zero exit status
KernelOutcomes(n) ==
    IF n \in DeviceParams
      THEN IF faults < MaxFaults THEN KernelResults ELSE {"ok"}
      ELSE {"CalledProcessError"}

\* the exceptions _write_kernel_param catches
Caught == {"CalledProcessError", "TimeoutExpired"}

\* results of open(path, 'w') / f.write(...) in the RGB setters
FileOutcomes == IF faults < MaxFaults THEN {"ok", "OSError"} ELSE {"ok"}

\* a failure injected by the environment (not one the code produces itself)
FaultCount(n, o) == IF o # "ok" /\ n \in DeviceParams THEN 1 ELSE 0

Log(instr, ok, io, raised) ==
    [ alog EXCEPT !.attempted = Append(@, instr.param),
                  !.issued = IF io THEN Append(@, instr.param) ELSE @,
                  !.failed = IF ok THEN @ ELSE @ \cup {instr.param},
                  !.raisedBy = IF raised THEN instr.param ELSE @ ]

\* the task goes on to the next call, or leaves the try block by an exception
Advance(t, instr, raised) ==
    /\ app' = [ app EXCEPT ![t].pc = @ + 1, ![t].aborted = raised ]
    /\ cur' = IF Yields(instr) THEN "none" ELSE t

\* one call of _apply_hardware_profile
AppStep(t) ==
    /\ cur \in {t, "none"}
    /\ app[t].active
    /\ ~Cancelling(t)
    /\ ~app[t].aborted
    /\ app[t].pc <= Len(Program(Profiles[app[t].prof]))
    /\ LET instr == Program(Profiles[app[t].prof])[app[t].pc] IN
         CASE instr.op = "kernel" ->
                \* _write_kernel_param
                \E o \in KernelOutcomes(instr.param) :
                  /\ dev' = IF o = "ok" THEN [ dev EXCEPT ![instr.param] = instr.value ]
                                        ELSE dev
                  /\ alog' = Log(instr, o = "ok", TRUE, o \notin Caught \cup {"ok"})
                  /\ faults' = faults + FaultCount(instr.param, o)
                  /\ Advance(t, instr, o \notin Caught \cup {"ok"})
                  /\ UNCHANGED brightness
           [] instr.op = "set_mode" ->
                \* LinuxRGBController.set_mode(profile.rgb_mode): the argument is
                \* a str, mode.value raises AttributeError after the file was
                \* opened and before anything is written; set_mode returns False
                /\ alog' = Log(instr, FALSE, TRUE, FALSE)
                /\ Advance(t, instr, FALSE)
                /\ UNCHANGED <<dev, brightness, faults>>
           [] instr.op = "set_brightness" ->
                \* LinuxRGBController.set_brightness
                IF ~(0 <= instr.value /\ instr.value <= 100)
                  THEN \* ValueError, raised outside the try block
                       /\ alog' = Log(instr, FALSE, FALSE, TRUE)
                       /\ Advance(t, instr, TRUE)
                       /\ UNCHANGED <<dev, brightness, faults>>
                  ELSE \E o \in FileOutcomes :
                         /\ dev' = IF o = "ok"
                                     THEN [ dev EXCEPT !["rgb_brightness"] = instr.value ]
                                     ELSE dev
                         /\ brightness' = IF o = "ok" THEN instr.value ELSE brightness
                         /\ alog' = Log(instr, o = "ok", TRUE, FALSE)
                         /\ faults' = faults + FaultCount(instr.param, o)
                         /\ Advance(t, instr, FALSE)
           [] instr.op = "set_static_color" ->
                \* LinuxRGBController.set_static_color(profile.rgb_color): it
                \* writes "static" through set_mode(RGBMode.STATIC); the colour
                \* is a str, so _write_color_register raises AttributeError
                \* before it opens a file and color.to_hex() raises after it:
                \* no zone register is written and the call returns False
                \E o \in FileOutcomes :
                  /\ dev' = IF o = "ok" THEN [ dev EXCEPT !["rgb_mode"] = "static" ]
                                        ELSE dev
                  /\ alog' = Log(instr, FALSE, TRUE, FALSE)
                  /\ faults' = faults + FaultCount("rgb_mode", o)
                  /\ Advance(t, instr, FALSE)
                  /\ UNCHANGED brightness
           [] instr.op = "ai_start_monitoring" ->
                \* LinuxAIController defines no start_monitoring: AttributeError
                /\ alog' = alog
                /\ Advance(t, instr, TRUE)
                /\ UNCHANGED <<dev, brightness, faults>>
    /\ UNCHANGED <<napplies, envVars, lsnVars, ctlVars, batVars, lifeVars, detections, cm, mgr, sel, trip, anim>>

\* _apply_hardware_profile returns (after its last call or from its except
\* block), apply_profile returns True, and the task goes back to its sleep or ends
AppReturn(t) ==
    /\ cur \in {t, "none"}
    /\ app[t].active
    /\ ~Cancelling(t)
    /\ app[t].aborted \/ app[t].pc > Len(Program(Profiles[app[t].prof]))
    /\ app' = [ app EXCEPT ![t] = Idle ]
    /\ alog' = [ alog EXCEPT !.status = "returned", !.ret = TRUE, !.left = dev ]
    /\ cur' = "none"
    /\ UNCHANGED <<dev, brightness, faults, napplies, envVars, lsnVars, ctlVars, batVars, lifeVars, detections, cm, mgr, sel, trip, anim>>

\* BaseAutoListener.apply_profile(profile_name) entered by task t.
\* GameHolds: the latest application that reached the hardware is the game
\* listener's, for the game that current_game names, and that game is
\* still running
StartApply(t, name, rep) ==
    LET GameHolds == /\ alog.holder = "game"
                     /\ current_game \in procs
                     /\ game_database[current_game].type = "game"
                     /\ alog.held = game_database[current_game].profile
    IN
    IF name \notin DOMAIN Profiles
      THEN /\ alog' = [ NoLog EXCEPT !.task = t, !.prof = name, !.pre = dev,
                                     !.left = dev, !.repeat = rep,
                                     !.holder = alog.holder, !.held = alog.held,
                                     !.status = "returned", !.ret = FALSE ]
           /\ cur' = "none"
           /\ UNCHANGED app
      ELSE /\ alog' = [ NoLog EXCEPT !.task = t, !.prof = name, !.pre = dev,
                                     !.repeat = rep,
                                     !.holder = t, !.held = name,
                                     !.replaced = IF GameHolds THEN alog.held ELSE "none",
                                     !.status = "running" ]
           /\ app' = [ app EXCEPT ![t] = [ Idle EXCEPT !.active = TRUE,
                                                        !.prof = name, !.pc = 1 ] ]
           /\ cur' = t

\* a coroutine outside the listeners awaits listener.apply_profile(name)
CallApplyProfile ==
    /\ cur = "none"
    /\ ~app["main"].active
    /\ napplies < MaxApplies
    /\ \E name \in ProfileNames : StartApply("main", name, FALSE)
    /\ napplies' = napplies + 1
    /\ UNCHANGED <<dev, brightness, faults, envVars, lsnVars, ctlVars, batVars, lifeVars, detections, cm, mgr, sel, trip, anim>>

\* LinuxRGBController.start_rainbow_effect, called from the CLI or the GUI,
\* when its write of rgb_mode succeeds (a failed one changes nothing)
start_rainbow_effect ==
    /\ cur = "none"
    /\ dev["rgb_mode"] # "rainbow"
    /\ dev' = [ dev EXCEPT !["rgb_mode"] = "rainbow" ]
    /\ UNCHANGED <<brightness, app, cur, alog, faults, napplies, envVars, lsnVars, ctlVars, batVars, lifeVars, detections, cm, mgr, sel, trip, anim>>

----------------------------------------------------------------------------
(* LinuxGPUController and LinuxRGBController, called directly *)

\* fan_curve is named by the preset whose curve it is
GPUSettings(pl, co, mo, fc, mode) ==
    [ power_limit |-> pl, core_offset |-> co, memory_offset |-> mo,
      fan_curve |-> fc, performance_mode |-> mode ]

\* _check_nvidia_support on the machine the toolkit is written for
nvidia_available == TRUE

valid_modes == {"maximum", "balanced", "quiet"}

\* mode_settings of set_performance_mode
mode_settings ==
    [ m \in valid_modes |->
        CASE m = "maximum" -> GPUSettings(140, 150, 500, "maximum", "maximum")
          [] m = "balanced" -> GPUSettings(115, 75, 250, "balanced", "balanced")
          [] m = "quiet" -> GPUSettings(90, 0, 0, "quiet", "quiet") ]

\* the record of a call: the recorded values before it and what became of
\* its write of the power limit and of the brightness
\* ("none": no such write was made); ret is what set_performance_mode
\* returned ("none": it raised, or the call is of another method)
Call(op, arg, mode, pw, bw) ==
    [ op |-> op, arg |-> arg, mode |-> mode,
      pre_power_limit |-> current_settings.power_limit, pre_brightness |-> brightness,
      power_write |-> pw, brightness_write |-> bw, ret |-> "none" ]

\* a variant of PowerLimitAccepted without the range check
AnyPowerLimitAccepted(p) == TRUE

\* the range check of set_power_limit
PowerLimitAccepted(p) == 60 <= p /\ p <= 140

\* what a command run with subprocess.run can come to
CmdOutcomes ==
    IF faults < MaxFaults THEN {"ok", "nonzero", "FileNotFoundError"} ELSE {"ok"}

Written(o) == IF nvidia_available /\ o = "ok" THEN "ok" ELSE "failed"

ctlRest == <<dev, app, cur, alog, napplies, envVars, lsnVars, batVars, lifeVars, detections, cm, mgr, sel, trip, anim>>

\* LinuxGPUController.set_power_limit
set_power_limit ==
    \E p \in {59, 60, 100, 140, 141} :
      IF ~PowerLimitAccepted(p)
        THEN /\ ctl' = Call("set_power_limit", p, "none", "none", "none")   \* ValueError
             /\ UNCHANGED <<current_settings, faults, brightness, ctlRest>>
        ELSE \E o \in CmdOutcomes :
               /\ current_settings' =
                    IF Written(o) = "ok"
                      THEN [ current_settings EXCEPT !.power_limit = p ]
                      ELSE current_settings
               /\ ctl' = Call("set_power_limit", p, "none", Written(o), "none")
               /\ faults' = faults + (IF o = "ok" THEN 0 ELSE 1)
               /\ UNCHANGED <<brightness, ctlRest>>

\* current_settings after set_power_limit, set_clock_offsets and set_fan_curve
\* were called with the values of `preset` and came to o1, o2 and o3;
\* set_fan_curve does not look at the result of its commands
ApplyAll(preset, o1, o2, o3) ==
    LET ok1 == Written(o1) = "ok"
        ok2 == Written(o2) = "ok"
        ok3 == nvidia_available /\ o3 # "FileNotFoundError"
        s1 == IF ok1 THEN [ current_settings EXCEPT !.power_limit = preset.power_limit ]
                     ELSE current_settings
        s2 == IF ok2 THEN [ s1 EXCEPT !.core_offset = preset.core_offset,
                                      !.memory_offset = preset.memory_offset ]
                     ELSE s1
        s3 == IF ok3 THEN [ s2 EXCEPT !.fan_curve = preset.fan_curve ] ELSE s2
    IN  IF ok1 /\ ok2 /\ ok3 THEN preset ELSE s3

AnyFailed(o1, o2, o3) == IF o1 = "ok" /\ o2 = "ok" /\ o3 = "ok" THEN 0 ELSE 1

\* LinuxGPUController.set_performance_mode
set_performance_mode ==
    \E m \in (valid_modes \cup {"turbo"}) :
      IF m \notin valid_modes
        THEN /\ ctl' = Call("set_performance_mode", 0, m, "none", "none")   \* ValueError
             /\ UNCHANGED <<current_settings, faults, brightness, ctlRest>>
        ELSE \E o1 \in CmdOutcomes, o2 \in CmdOutcomes, o3 \in CmdOutcomes :
               /\ current_settings' = ApplyAll(mode_settings[m], o1, o2, o3)
               /\ ctl' = [ Call("set_performance_mode", 0, m, Written(o1), "none")
                             EXCEPT !.ret = IF /\ Written(o1) = "ok"
                                               /\ Written(o2) = "ok"
                                               /\ nvidia_available
                                               /\ o3 # "FileNotFoundError"
                                            THEN "True" ELSE "False" ]
               /\ faults' = faults + AnyFailed(o1, o2, o3)
               /\ UNCHANGED <<brightness, ctlRest>>

\* LinuxGPUController.reset_to_defaults, with its default_settings
reset_to_defaults ==
    \E o1 \in CmdOutcomes, o2 \in CmdOutcomes, o3 \in CmdOutcomes :
      /\ current_settings' = ApplyAll(GPUSettings(115, 0, 0, "balanced", "balanced"), o1, o2, o3)
      /\ ctl' = Call("reset_to_defaults", 0, "none", Written(o1), "none")
      /\ faults' = faults + AnyFailed(o1, o2, o3)
      /\ UNCHANGED <<brightness, ctlRest>>

rgbRest == <<current_settings, app, cur, alog, napplies, envVars, lsnVars, batVars, lifeVars, detections, cm, mgr, sel, trip, anim>>

\* LinuxRGBController.set_brightness
set_brightness ==
    \E b \in {-1, 0, 50, 100, 101} :
      IF ~(0 <= b /\ b <= 100)                                            \* the range check
        THEN /\ ctl' = Call("set_brightness", b, "none", "none", "none")     \* ValueError
             /\ UNCHANGED <<dev, brightness, faults, rgbRest>>
        ELSE \E o \in FileOutcomes :
               /\ dev' = IF o = "ok" THEN [ dev EXCEPT !["rgb_brightness"] = b ] ELSE dev
               /\ brightness' = IF o = "ok" THEN b ELSE brightness
               /\ ctl' = Call("set_brightness", b, "none", "none",
                              IF o = "ok" THEN "ok" ELSE "failed")
               /\ faults' = faults + (IF o = "ok" THEN 0 ELSE 1)
               /\ UNCHANGED rgbRest

----------------------------------------------------------------------------
(* LinuxRGBController: custom animations *)

\* the coroutines that call start_custom_animation and stop_animation
Callers == {"c1", "c2"}

\* Task.cancel() of animation task k (0: self.animation_task is None); a
\* task that is done is not affected
Cancel(tasks, k) ==
    IF k # 0 /\ tasks[k].at # "done" THEN [ tasks EXCEPT ![k].cancelled = TRUE ] ELSE tasks

\* LinuxRGBController.start_custom_animation(effect): no await in it, so it
\* runs to its end at once; the task it creates has not run yet
start_custom_animation ==
    /\ Len(anim.tasks) < MaxAnimations
    /\ \E c \in Callers, mode \in {"SPECTRUM_CYCLE", "REACTIVE"} :
         /\ anim.awaiting[c] = 0
         /\ anim' = [ anim EXCEPT
                        !.animation_running = TRUE,
                        !.animation_task = Len(anim.tasks) + 1,
                        !.tasks = Append(Cancel(anim.tasks, anim.animation_task),
                                         [ mode |-> mode, at |-> "created", cancelled |-> FALSE,
                                           frame |-> 0, writes |-> 0 ]) ]
    /\ UNCHANGED <<appVars, envVars, lsnVars, ctlVars, batVars, lifeVars, detections, cm, mgr,
                   sel, trip>>

\* LinuxRGBController._run_custom_animation of task k, from one suspension
\* to the next: a cancelled task ends where it sleeps (or never starts);
\* set_zone_color has no await, so the zone writes of one frame are made
\* without suspension, apart from the sleep of _animate_reactive between
\* its flash and its fade
run_custom_animation ==
    /\ \E k \in 1..Len(anim.tasks) :
         LET t == anim.tasks[k]
         IN  /\ t.at # "done"
             /\ anim' = [ anim EXCEPT !.tasks[k] =
                   IF t.cancelled \/ (t.at # "flash_sleep" /\ ~anim.animation_running)
                        \/ (t.at # "flash_sleep" /\ t.frame >= MaxFrames)
                     THEN [ t EXCEPT !.at = "done" ]
                   ELSE IF t.at = "flash_sleep"
                     THEN [ t EXCEPT !.writes = @ + 1, !.frame = @ + 1, !.at = "sleep" ]
                   ELSE IF t.mode = "SPECTRUM_CYCLE"
                     THEN [ t EXCEPT !.writes = @ + 1, !.frame = @ + 1, !.at = "sleep" ]
                   ELSE IF t.frame % 30 = 0
                     THEN [ t EXCEPT !.writes = @ + 1, !.at = "flash_sleep" ]
                   ELSE [ t EXCEPT !.frame = @ + 1, !.at = "sleep" ] ]
    /\ UNCHANGED <<appVars, envVars, lsnVars, ctlVars, batVars, lifeVars, detections, cm, mgr,
                   sel, trip>>

\* LinuxRGBController.stop_animation up to its await of the task; awaiting
\* a task that is done does not suspend
stop_animation ==
    /\ \E c \in Callers :
         /\ anim.awaiting[c] = 0
         /\ anim' = IF anim.animation_task = 0
                      THEN [ anim EXCEPT !.animation_running = FALSE ]
                    ELSE IF anim.tasks[anim.animation_task].at = "done"
                      THEN [ anim EXCEPT !.animation_running = FALSE, !.animation_task = 0 ]
                    ELSE [ anim EXCEPT !.animation_running = FALSE,
                                       !.tasks = Cancel(anim.tasks, anim.animation_task),
                                       !.awaiting[c] = anim.animation_task ]
         /\ anim' # anim
    /\ UNCHANGED <<appVars, envVars, lsnVars, ctlVars, batVars, lifeVars, detections, cm, mgr,
                   sel, trip>>

\* stop_animation after its await: self.animation_task = None
stop_animation_resumes ==
    /\ \E c \in Callers :
         /\ anim.awaiting[c] # 0
         /\ anim.tasks[anim.awaiting[c]].at = "done"
         /\ anim' = [ anim EXCEPT !.animation_task = 0, !.awaiting[c] = 0 ]
    /\ UNCHANGED <<appVars, envVars, lsnVars, ctlVars, batVars, lifeVars, detections, cm, mgr,
                   sel, trip>>

----------------------------------------------------------------------------
(* LegionToolkitCLI *)

\* LegionToolkitCLI.set_power_limit(component, limit), with
\* write_kernel_param: every exception of the write is caught
cli_set_power_limit ==
    /\ \E c \in {"cpu_pl1", "cpu_pl2", "gpu_tgp", "fan1_target"},
          v \in {14, 15, 55, 56, 59, 60, 140, 141} :
         IF c \in {"cpu_pl1", "cpu_pl2", "gpu_tgp"} /\ InDomain(c, v)
           THEN \E o \in KernelOutcomes(c) :
                  /\ dev' = IF o = "ok" THEN [ dev EXCEPT ![c] = v ] ELSE dev
                  /\ ctl' = Call("cli_set_power_limit", v, c,
                                 IF o = "ok" THEN "ok" ELSE "failed", "none")
                  /\ faults' = faults + FaultCount(c, o)
           ELSE /\ ctl' = Call("cli_set_power_limit", v, c, "none", "none")
                /\ UNCHANGED <<dev, faults>>
    /\ UNCHANGED <<brightness, rgbRest>>

\* LegionToolkitCLI.set_fan_speed(fan, speed); the parameter is f"fan{fan}_target"
cli_set_fan_speed ==
    /\ \E fan \in 0..3, v \in {-1, 0, 100, 101} :
         LET param == <<"fan0_target", "fan1_target", "fan2_target", "fan3_target">>[fan + 1]
         IN  IF fan \in {1, 2} /\ InDomain(param, v)
               THEN \E o \in KernelOutcomes(param) :
                      /\ dev' = IF o = "ok" THEN [ dev EXCEPT ![param] = v ] ELSE dev
                      /\ ctl' = Call("cli_set_fan_speed", v, param,
                                     IF o = "ok" THEN "ok" ELSE "failed", "none")
                      /\ faults' = faults + FaultCount(param, o)
               ELSE /\ ctl' = Call("cli_set_fan_speed", v, param, "none", "none")
                    /\ UNCHANGED <<dev, faults>>
    /\ UNCHANGED <<brightness, rgbRest>>

----------------------------------------------------------------------------
(* ConfigManager *)

\* the members of HardwareProfile and PerformanceMode and their values
EnumValue ==
    [ LEGION_GEN9_16IRX9 |-> "legion_slim_7i_gen9_16irx9", LEGION_GEN8 |-> "legion_gen8",
      LEGION_GENERIC |-> "legion_generic", UNKNOWN |-> "unknown",
      QUIET |-> "quiet", BALANCED |-> "balanced", PERFORMANCE |-> "performance",
      CUSTOM |-> "custom" ]

\* LegionConfig(): the fields the settings of a profile and the hardware
\* defaults are made of
LegionConfig ==
    [ hardware_profile |-> "UNKNOWN", performance_mode |-> "BALANCED",
      thermal |-> [ cpu_temp_target |-> 85 ], gpu |-> [ power_limit |-> 140 ],
      rgb |-> [ brightness |-> 75 ],
      profiles |-> [ n \in {} |-> 0 ], active_profile |-> "default",
      backup_settings |-> TRUE ]

\* a variant of DictOf that writes the name of a member instead of its value
DictOfNames(c) == c

\* the dictionary save() dumps: asdict(self.config) with the enums replaced
\* by their values
DictOf(c) ==
    [ c EXCEPT !.hardware_profile = EnumValue[@], !.performance_mode = EnumValue[@] ]

\* _dict_to_config: HardwareProfile(value), PerformanceMode(value); a value
\* that no member has raises ValueError, and load() falls back to defaults
ConfigOf(d) ==
    IF \E h \in {"LEGION_GEN9_16IRX9", "LEGION_GEN8", "LEGION_GENERIC", "UNKNOWN"} :
            EnumValue[h] = d.hardware_profile
       /\ \E m \in {"QUIET", "BALANCED", "PERFORMANCE", "CUSTOM"} :
            EnumValue[m] = d.performance_mode
      THEN [ d EXCEPT !.hardware_profile = CHOOSE h \in DOMAIN EnumValue : EnumValue[h] = @,
                      !.performance_mode = CHOOSE m \in DOMAIN EnumValue : EnumValue[m] = @ ]
      ELSE LegionConfig

\* _create_default_config when self._config is None: _detect_hardware assigns
\* the profile it detects to self._config.hardware_profile, the AttributeError
\* is swallowed by the bare except around the read of product_name, and the
\* new LegionConfig keeps the hardware_profile it was constructed with
DefaultConfig(product_name) ==
    LET config == LegionConfig IN
      IF config.hardware_profile = "LEGION_GEN9_16IRX9"
        THEN [ config EXCEPT !.thermal.cpu_temp_target = 95, !.gpu.power_limit = 140 ]
        ELSE IF config.hardware_profile \in {"LEGION_GEN8", "LEGION_GENERIC"}
               THEN [ config EXCEPT !.thermal.cpu_temp_target = 85, !.gpu.power_limit = 115 ]
               ELSE config

\* no ConfigManager constructed and an empty directory:
\*   exists   config.json exists          file    the dictionary it holds
\*   saved    self.config when the file was written last
\*   model    the product name read by the latest hardware detection
\*   ret      the latest call, what it returned, whether it created defaults
\*   clock    datetime.now() in seconds
\*   backups  the files config_backup_<timestamp>.json of the backup directory
NoManager ==
    [ constructed |-> FALSE, config |-> LegionConfig,
      exists |-> FALSE, file |-> DictOf(LegionConfig), saved |-> LegionConfig,
      model |-> [ text |-> "", is16IRX9 |-> FALSE, isLegion |-> FALSE ],
      ret |-> [ op |-> "none", ok |-> FALSE, name |-> "none", default |-> FALSE ],
      clock |-> 0, backups |-> [ t \in {} |-> 0 ] ]

\* a variant of Kept that keeps the first ten backups of the sorted list
KeptOldest(stamps) ==
    { t \in stamps : Cardinality({ u \in stamps : u < t }) < 10 }

\* sorted(glob("config_backup_*.json"))[-10:], the backups that are not
\* unlinked: the timestamps %Y%m%d_%H%M%S have a fixed width, so the order of
\* the names is the order of the times
Kept(stamps) ==
    { t \in stamps : Cardinality({ u \in stamps : u > t }) < 10 }

\* _create_backup: copy2 of config.json to the backup named after the current
\* second, which replaces a backup made in the same second; copy2 of a file
\* that does not exist raises, and the exception is logged
CreateBackup(c) ==
    IF c.exists
      THEN LET copied == [ t \in DOMAIN c.backups \cup {c.clock} |->
                            IF t = c.clock THEN c.file ELSE c.backups[t] ]
           IN  [ c EXCEPT !.backups = [ t \in Kept(DOMAIN copied) |-> copied[t] ] ]
      ELSE c

\* save() of the manager c: the backup, then the dump of c.config
AfterSave(c) ==
    LET b == IF c.config.backup_settings /\ c.exists THEN CreateBackup(c) ELSE c
    IN  [ b EXCEPT !.exists = TRUE, !.file = DictOf(c.config), !.saved = c.config ]

Returned(op, ok, name, default) == [ op |-> op, ok |-> ok, name |-> name, default |-> default ]

\* what /sys/class/dmi/id/product_name reads, with the result of
\* `"16IRX9" in product_name` and `"legion" in product_name.lower()`
ProductNames ==
    { [ text |-> "Legion Slim 7 16IRX9", is16IRX9 |-> TRUE, isLegion |-> TRUE ],
      [ text |-> "Legion 5 15ACH6", is16IRX9 |-> FALSE, isLegion |-> TRUE ],
      [ text |-> "ThinkPad X1", is16IRX9 |-> FALSE, isLegion |-> FALSE ] }

\* ConfigManager(config_dir): __init__ and load()
NewConfigManager ==
    /\ IF cm.exists
         THEN cm' = [ cm EXCEPT !.constructed = TRUE, !.config = ConfigOf(cm.file),
                                !.ret = Returned("ConfigManager", TRUE, "none", FALSE) ]
         ELSE \E pn \in ProductNames :
                cm' = AfterSave([ cm EXCEPT !.constructed = TRUE, !.config = DefaultConfig(pn),
                                        !.model = pn,
                                        !.ret = Returned("ConfigManager", TRUE, "none", TRUE) ])
    /\ UNCHANGED <<appVars, envVars, lsnVars, ctlVars, batVars, lifeVars, detections, mgr, sel, trip, anim>>

\* the caller assigns a setting of config_manager.config: a performance
\* mode, a CPU temperature target, a GPU power limit or backup_settings
Assign(modes, targets, limits, flags) ==
    /\ cm.constructed
    /\ \/ \E m \in modes :
            cm' = [ cm EXCEPT !.config.performance_mode = m,
                              !.ret = Returned("assign", TRUE, "none", FALSE) ]
       \/ \E t \in targets :
            cm' = [ cm EXCEPT !.config.thermal.cpu_temp_target = t,
                              !.ret = Returned("assign", TRUE, "none", FALSE) ]
       \/ \E w \in limits :
            cm' = [ cm EXCEPT !.config.gpu.power_limit = w,
                              !.ret = Returned("assign", TRUE, "none", FALSE) ]
       \/ \E b \in flags :
            cm' = [ cm EXCEPT !.config.backup_settings = b,
                              !.ret = Returned("assign", TRUE, "none", FALSE) ]
    /\ UNCHANGED <<appVars, envVars, lsnVars, ctlVars, batVars, lifeVars, detections, mgr, sel, trip, anim>>

\* ConfigManager.save
save ==
    /\ cm.constructed
    /\ cm' = AfterSave([ cm EXCEPT !.ret = Returned("save", TRUE, "none", FALSE) ])
    /\ UNCHANGED <<appVars, envVars, lsnVars, ctlVars, batVars, lifeVars, detections, mgr, sel, trip, anim>>

\* ConfigManager.save_profile(name): the module does not import datetime, so
\* str(datetime.now()) raises NameError before the profile is stored, and the
\* except clause returns False
save_profile ==
    /\ cm.constructed
    /\ \E name \in {"gaming", "work"} :
         cm' = [ cm EXCEPT !.ret = Returned("save_profile", FALSE, name, FALSE) ]
    /\ UNCHANGED <<appVars, envVars, lsnVars, ctlVars, batVars, lifeVars, detections, mgr, sel, trip, anim>>

\* ConfigManager.load_profile(name)
load_profile ==
    /\ cm.constructed
    /\ \E name \in {"gaming", "work"} :
         IF name \notin DOMAIN cm.config.profiles
           THEN cm' = [ cm EXCEPT !.ret = Returned("load_profile", FALSE, name, FALSE) ]
           ELSE LET profile == cm.config.profiles[name]
                    loaded == [ cm.config EXCEPT
                                  !.performance_mode =
                                     CHOOSE m \in DOMAIN EnumValue :
                                       EnumValue[m] = profile.performance_mode,
                                  !.thermal = profile.thermal, !.gpu = profile.gpu,
                                  !.rgb = profile.rgb, !.active_profile = name ]
                IN  cm' = AfterSave([ cm EXCEPT !.config = loaded,
                                            !.ret = Returned("load_profile", TRUE, name, FALSE) ])
    /\ UNCHANGED <<appVars, envVars, lsnVars, ctlVars, batVars, lifeVars, detections, mgr, sel, trip, anim>>

\* a variant of Deleted that leaves the dictionary of profiles as it is
DeletedNothing(config, name) == config

\* `del self.config.profiles[name]` and the reset of active_profile
Deleted(config, name) ==
    [ config EXCEPT
        !.profiles = [ n \in DOMAIN config.profiles \ {name} |-> config.profiles[n] ],
        !.active_profile = IF @ = name THEN "default" ELSE @ ]

\* ConfigManager.delete_profile(name)
delete_profile ==
    /\ cm.constructed
    /\ \E name \in {"gaming", "work"} :
         IF name \in DOMAIN cm.config.profiles
           THEN cm' = AfterSave([ cm EXCEPT !.config = Deleted(cm.config, name),
                                            !.ret = Returned("delete_profile", TRUE, name, FALSE) ])
           ELSE cm' = [ cm EXCEPT !.ret = Returned("delete_profile", FALSE, name, FALSE) ]
    /\ UNCHANGED <<appVars, envVars, lsnVars, ctlVars, batVars, lifeVars, detections, mgr, sel, trip, anim>>

\* ConfigManager.import_config(import_path): the file holds an exported
\* configuration with profiles, or a performance mode that PerformanceMode
\* does not have (ValueError, nothing is imported)
import_config ==
    /\ cm.constructed
    /\ \E d \in LET gaming == [ performance_mode |-> "performance",
                                 thermal |-> [ cpu_temp_target |-> 95 ],
                                 gpu |-> [ power_limit |-> 130 ],
                                 rgb |-> [ brightness |-> 100 ] ]
                     work == [ performance_mode |-> "quiet",
                               thermal |-> [ cpu_temp_target |-> 75 ],
                               gpu |-> [ power_limit |-> 115 ],
                               rgb |-> [ brightness |-> 50 ] ]
                     exported == DictOf(LegionConfig)
                 IN  { [ exported EXCEPT !.profiles = [ n \in {"gaming"} |-> gaming ],
                                         !.active_profile = "gaming" ],
                       [ exported EXCEPT !.profiles = [ n \in {"gaming", "work"} |->
                                                          IF n = "gaming" THEN gaming ELSE work ] ],
                       [ exported EXCEPT !.performance_mode = "turbo" ] } :
         IF \E m \in {"QUIET", "BALANCED", "PERFORMANCE", "CUSTOM"} :
              EnumValue[m] = d.performance_mode
           THEN LET b == IF cm.config.backup_settings THEN CreateBackup(cm) ELSE cm
                IN  cm' = AfterSave([ b EXCEPT !.config = ConfigOf(d),
                                               !.ret = Returned("import_config", TRUE, "none", FALSE) ])
           ELSE cm' = [ cm EXCEPT !.ret = Returned("import_config", FALSE, "none", FALSE) ]
    /\ UNCHANGED <<appVars, envVars, lsnVars, ctlVars, batVars, lifeVars, detections, mgr, sel, trip, anim>>

\* a variant of ResetToDefaults that carries the saved profiles over
ResetKeepingProfiles(c, product_name) ==
    LET b == IF c.config.backup_settings THEN CreateBackup(c) ELSE c
    IN  AfterSave([ b EXCEPT !.config = [ DefaultConfig(product_name) EXCEPT
                                            !.profiles = c.config.profiles ],
                             !.model = product_name,
                             !.ret = Returned("reset_to_defaults", TRUE, "none", TRUE) ])

\* ConfigManager.reset_to_defaults: the backup, the new default
\* configuration (its hardware detection assigns to the configuration that is
\* being replaced), save()
ResetToDefaults(c, product_name) ==
    LET b == IF c.config.backup_settings THEN CreateBackup(c) ELSE c
    IN  AfterSave([ b EXCEPT !.config = DefaultConfig(product_name),
                             !.model = product_name,
                             !.ret = Returned("reset_to_defaults", TRUE, "none", TRUE) ])

config_reset_to_defaults ==
    /\ cm.constructed
    /\ \E pn \in ProductNames : cm' = ResetToDefaults(cm, pn)
    /\ UNCHANGED <<appVars, envVars, lsnVars, ctlVars, batVars, lifeVars, detections, mgr, sel, trip, anim>>

\* a second passes; the seconds in which nothing is saved make no
\* difference to the names of the backups and are left out
Tick ==
    /\ cm.clock < MaxClock
    /\ cm.clock \in DOMAIN cm.backups
    /\ cm' = [ cm EXCEPT !.clock = @ + 1 ]
    /\ UNCHANGED <<appVars, envVars, lsnVars, ctlVars, batVars, lifeVars, detections, mgr, sel, trip, anim>>

----------------------------------------------------------------------------
(* BatteryManager *)

batRest == <<dev, brightness, app, cur, alog, napplies, envVars, lsnVars, ctlVars, lifeVars, detections, cm, mgr, sel, trip, anim>>

\* the user, or another installation, writes battery.json
EditConfigFile ==
    /\ \E v \in {30, 60, 100, 120}, c \in BOOLEAN :
         /\ config_file' = [ exists |-> TRUE, conservation_mode |-> c,
                             charge_threshold |-> v ]
         /\ config_file' # config_file
    /\ UNCHANGED <<settings, conservation_active, original_charge_threshold,
                   battery_charge_threshold, bcall, faults, batRest>>

\* BatteryManager.load_settings
load_settings ==
    /\ config_file.exists
    /\ settings' = [ conservation_mode |-> config_file.conservation_mode,
                     charge_threshold |-> config_file.charge_threshold ]
    /\ UNCHANGED <<conservation_active, original_charge_threshold, config_file,
                   battery_charge_threshold, bcall, faults, batRest>>

\* what BatteryManager._write_kernel_param can come to
WriteOutcomes == IF faults < MaxFaults THEN KernelResults ELSE {"ok"}

\* BatteryManager.save_settings of the settings st: a failure is logged
Saved(st, o) ==
    IF o = "ok"
      THEN [ exists |-> TRUE, conservation_mode |-> st.conservation_mode,
             charge_threshold |-> st.charge_threshold ]
      ELSE config_file

\* BatteryManager.set_charge_threshold(th); every exception is caught
SetChargeThreshold(th) ==
    IF ~(50 <= th /\ th <= 100)                                           \* the range check
      THEN /\ bcall' = [ arg |-> th, pre |-> settings.charge_threshold,
                         result |-> "rejected", raised |-> "none", runs |-> 0 ]
           /\ UNCHANGED <<settings, config_file, battery_charge_threshold, faults>>
      ELSE \E o \in WriteOutcomes, w \in FileOutcomes :
             /\ (o # "ok") => (w = "ok")
             /\ battery_charge_threshold' = IF o = "ok" THEN th ELSE battery_charge_threshold
             /\ settings' = IF o = "ok" THEN [ settings EXCEPT !.charge_threshold = th ]
                                        ELSE settings
             /\ config_file' = IF o = "ok" THEN Saved(settings', w) ELSE config_file
             /\ bcall' = [ arg |-> th, pre |-> settings.charge_threshold,
                           result |-> IF o = "ok" THEN "ok" ELSE "failed",
                           raised |-> IF o = "ok" THEN "none" ELSE o, runs |-> 1 ]
             /\ faults' = faults + (IF o = "ok" /\ w = "ok" THEN 0 ELSE 1)

set_charge_threshold ==
    /\ \E th \in {49, 50, 90, 100, 101} : SetChargeThreshold(th)
    /\ UNCHANGED <<conservation_active, original_charge_threshold, batRest>>

\* BatteryManager.enable_conservation_mode, as apply_settings calls it
EnableConservationMode ==
    /\ ~conservation_active
    /\ \E o \in WriteOutcomes, w \in FileOutcomes :
         /\ (o # "ok") => (w = "ok")
         /\ original_charge_threshold' = battery_charge_threshold
         /\ battery_charge_threshold' = IF o = "ok" THEN 60 ELSE battery_charge_threshold
         /\ conservation_active' = (o = "ok")
         /\ settings' = IF o = "ok" THEN [ settings EXCEPT !.conservation_mode = TRUE ]
                                    ELSE settings
         /\ config_file' = IF o = "ok" THEN Saved(settings', w) ELSE config_file
         /\ faults' = faults + (IF o = "ok" /\ w = "ok" THEN 0 ELSE 1)
    /\ UNCHANGED bcall

\* no enable_conservation_mode has returned True; `threshold` is the control
\* file before the call, `read` whether get_charge_threshold returned it,
\* charge_threshold is settings.charge_threshold before the call
NoTrip == [ stage |-> "none", threshold |-> 100, read |-> FALSE, charge_threshold |-> 80 ]

\* BatteryManager.enable_conservation_mode called by the user;
\* get_charge_threshold returns the content of the control file, or None
\* when neither interface can be read
enable_conservation_mode ==
    /\ IF conservation_active
         THEN UNCHANGED <<settings, conservation_active, original_charge_threshold,
                          config_file, battery_charge_threshold, faults, trip>>
         ELSE \E read \in BOOLEAN, o \in WriteOutcomes, w \in FileOutcomes :
                /\ (o # "ok") => (w = "ok")
                /\ original_charge_threshold' =
                     IF read THEN battery_charge_threshold ELSE original_charge_threshold
                /\ battery_charge_threshold' = IF o = "ok" THEN 60 ELSE battery_charge_threshold
                /\ conservation_active' = (o = "ok")
                /\ settings' = IF o = "ok" THEN [ settings EXCEPT !.conservation_mode = TRUE ]
                                           ELSE settings
                /\ config_file' = IF o = "ok" THEN Saved(settings', w) ELSE config_file
                /\ faults' = faults + (IF o = "ok" /\ w = "ok" THEN 0 ELSE 1)
                /\ trip' = IF o = "ok"
                             THEN [ stage |-> "enabled", threshold |-> battery_charge_threshold,
                                    read |-> read,
                                    charge_threshold |-> settings.charge_threshold ]
                             ELSE NoTrip
    /\ UNCHANGED <<bcall, dev, brightness, app, cur, alog, napplies, envVars, lsnVars, ctlVars,
                   lifeVars, detections, cm, mgr, sel, anim>>

\* BatteryManager.disable_conservation_mode; the threshold it writes is
\* self.original_charge_threshold or 100
disable_conservation_mode ==
    /\ IF ~conservation_active
         THEN UNCHANGED <<settings, conservation_active, original_charge_threshold,
                          config_file, battery_charge_threshold, faults, trip>>
         ELSE \E o \in WriteOutcomes, w \in FileOutcomes :
                /\ (o # "ok") => (w = "ok")
                /\ battery_charge_threshold' =
                     IF o # "ok" THEN battery_charge_threshold
                     ELSE IF original_charge_threshold # 0 THEN original_charge_threshold
                          ELSE 100
                /\ conservation_active' = (o # "ok")
                /\ settings' = IF o = "ok" THEN [ settings EXCEPT !.conservation_mode = FALSE ]
                                           ELSE settings
                /\ original_charge_threshold' =
                     IF o = "ok" THEN 0 ELSE original_charge_threshold
                /\ config_file' = IF o = "ok" THEN Saved(settings', w) ELSE config_file
                /\ faults' = faults + (IF o = "ok" /\ w = "ok" THEN 0 ELSE 1)
                /\ trip' = IF o # "ok" THEN trip
                           ELSE IF trip.stage = "enabled"
                                  THEN [ trip EXCEPT !.stage = "disabled" ]
                                  ELSE NoTrip
    /\ UNCHANGED <<bcall, dev, brightness, app, cur, alog, napplies, envVars, lsnVars, ctlVars,
                   lifeVars, detections, cm, mgr, sel, anim>>

\* BatteryManager.apply_settings
apply_settings ==
    /\ IF settings.conservation_mode
         THEN EnableConservationMode
         ELSE SetChargeThreshold(settings.charge_threshold)
              /\ UNCHANGED <<conservation_active, original_charge_threshold>>
    /\ UNCHANGED batRest

\* the state after construction, f device write failures having happened
Constructed(f) ==
    /\ dev = BootDevice
    /\ brightness = 75
    /\ app = [ t \in Appliers |-> Idle ]
    /\ cur = "none"
    /\ alog = NoLog
    /\ faults = f
    /\ napplies = 0
    /\ procs = {}
    /\ cpuHigh = FALSE
    /\ network = "none"
    /\ idle = FALSE
    /\ due = << >>
    /\ nevents = 0
    /\ running = {}
    /\ current_game = "none"
    /\ current_network = "none"
    /\ is_idle = FALSE
    /\ pending = << >>
    /\ seen = [ l \in PollingListeners |-> "none" ]
    /\ current_settings = GPUSettings(115, 0, 0, "balanced", "balanced")
    /\ ctl = [ op |-> "none", arg |-> 0, mode |-> "none",
               pre_power_limit |-> 115, pre_brightness |-> 75,
               power_write |-> "none", brightness_write |-> "none", ret |-> "none" ]
    /\ settings = [ conservation_mode |-> FALSE, charge_threshold |-> 80 ]  \* BatterySettings()
    /\ conservation_active = FALSE
    /\ original_charge_threshold = 0
    /\ config_file = [ exists |-> FALSE, conservation_mode |-> FALSE,
                       charge_threshold |-> 80 ]                         \* no battery.json
    /\ battery_charge_threshold = 100
    /\ bcall = [ arg |-> 0, pre |-> 80, result |-> "none", raised |-> "none", runs |-> 0 ]
    /\ monitoring_task = [ m \in Monitors |-> "None" ]
    /\ enabled = [ m \in Monitors |-> m # "battery" ]
    /\ loops = [ m \in Monitors |-> 0 ]
    /\ stopper = NoStopper
    /\ detections = << >>
    /\ cm = NoManager
    /\ mgr = [ file |-> [ exists |-> FALSE, enabled |-> [ l \in Listeners |-> TRUE ],
                          time |-> {} ],
               loaded |-> FALSE, disabled |-> {},
               triggers |-> DOMAIN TimeTriggers, jobs |-> DOMAIN TimeTriggers ]
    /\ trip = NoTrip
    /\ anim = [ animation_running |-> FALSE, animation_task |-> 0, tasks |-> << >>,
                awaiting |-> [ c \in Callers |-> 0 ] ]
    /\ sel = [ running_processes |-> << >>, current_game |-> "none", best |-> "none",
               applied |-> "None", done |-> TRUE ]

Init == Constructed(0)

NextApply ==
    \/ CallApplyProfile
    \/ AppStep("main")
    \/ AppReturn("main")
    \/ start_rainbow_effect

\* one coroutine applying profiles, and the RGB controller used beside it
SpecApply == Init /\ [][NextApply]_vars

----------------------------------------------------------------------------
(* The environment *)

EnvStep ==
    /\ cur = "none"
    /\ nevents < MaxEvents
    /\ nevents' = nevents + 1

\* a known process starts
StartProcess ==
    /\ EnvStep
    /\ \E p \in GameProcs \ procs : procs' = procs \cup {p}
    /\ UNCHANGED <<cpuHigh, network, idle, due, appVars, lsnVars, ctlVars, batVars, lifeVars, detections, cm, mgr, sel, trip, anim>>

\* a running process exits
StopProcess ==
    /\ EnvStep
    /\ \E p \in procs : procs' = procs \ {p}
    /\ UNCHANGED <<cpuHigh, network, idle, due, appVars, lsnVars, ctlVars, batVars, lifeVars, detections, cm, mgr, sel, trip, anim>>

\* the process of the process trigger crosses its cpu_threshold
CpuChange ==
    /\ EnvStep
    /\ cpuHigh' = ~cpuHigh
    /\ UNCHANGED <<procs, network, idle, due, appVars, lsnVars, ctlVars, batVars, lifeVars, detections, cm, mgr, sel, trip, anim>>

\* the machine joins or leaves a WiFi network
NetworkChange ==
    /\ EnvStep
    /\ \E n \in ({"none"} \cup DOMAIN WifiTriggers) \ {network} : network' = n
    /\ UNCHANGED <<procs, cpuHigh, idle, due, appVars, lsnVars, ctlVars, batVars, lifeVars, detections, cm, mgr, sel, trip, anim>>

\* the user goes idle past idle_threshold, or comes back
IdleChange ==
    /\ EnvStep
    /\ idle' = ~idle
    /\ UNCHANGED <<procs, cpuHigh, network, due, appVars, lsnVars, ctlVars, batVars, lifeVars, detections, cm, mgr, sel, trip, anim>>

\* the same change of the user's activity, any number of times
UserActivity ==
    /\ idle' = ~idle
    /\ UNCHANGED <<procs, cpuHigh, network, due, nevents, appVars, lsnVars, ctlVars, batVars,
                   lifeVars, detections, cm, mgr, sel, trip, anim>>

\* the clock reaches the time of a time trigger: its schedule job becomes due
ClockReaches ==
    /\ EnvStep
    /\ Cardinality({ t \in TimeTasks : app[t].active }) + Len(pending) + Len(due)
         < MaxTimeTasks
    /\ \E tr \in mgr.triggers :
         /\ \A i \in 1..Len(due) : due[i] # tr
         /\ due' = Append(due, tr)
    /\ UNCHANGED <<procs, cpuHigh, network, idle, appVars, lsnVars, ctlVars, batVars, lifeVars, detections, cm, mgr, sel, trip, anim>>

----------------------------------------------------------------------------
(* Starting and stopping the monitoring loops *)

\* a variant of AlreadyStarted in which start_monitoring has no early return
NeverAlreadyStarted(m) == FALSE

\* the test that opens start_monitoring: `if self.monitoring_task: return` in
\* the listeners, `if self.monitoring_active: return` in the BatteryManager
AlreadyStarted(m) ==
    IF m = "battery" THEN enabled[m] ELSE monitoring_task[m] # "None"

LoopState(m) ==
    IF monitoring_task[m] \in {"pending", "cancelling"} THEN "Running" ELSE "Stopped"

\* the monitors of ms whose start_monitoring creates a task
Starts(ms) == { m \in ms : ~AlreadyStarted(m) }

\* start_monitoring of every monitor of ms
StartMonitoring(ms) ==
    /\ monitoring_task' = [ m \in Monitors |->
                              IF m \in Starts(ms) THEN "pending" ELSE monitoring_task[m] ]
    /\ enabled' = [ m \in Monitors |-> IF m \in Starts(ms) THEN TRUE ELSE enabled[m] ]
    /\ loops' = [ m \in Monitors |-> IF m \in Starts(ms) THEN loops[m] + 1 ELSE loops[m] ]
    /\ running' = running \cup (Starts(ms) \cap Listeners)

\* the coroutine that starts and stops the monitors makes its next call
Calls ==
    /\ cur = "none"
    /\ stopper.pc = "idle"
    /\ stopper.calls < MaxCalls

Started(st, ms, m) ==
    [ st EXCEPT !.calls = IF m \in Monitors THEN @ + 1 ELSE @,
                !.returned = @ \ Starts(ms),
                !.done_all = @ /\ Starts(ms) \cap Listeners = {},
                !.last = <<"start", m, IF m \in Monitors THEN LoopState(m) ELSE "none">> ]

\* start_monitoring of the time listener, of the inactivity listener or of
\* the BatteryManager (the other listeners are started and stopped with all)
start_monitoring ==
    /\ Calls
    /\ \E m \in {"time", "inactivity", "battery"} :
         /\ StartMonitoring({m})
         /\ stopper' = Started(stopper, {m}, m)
    /\ UNCHANGED <<current_game, current_network, is_idle, pending, seen,
                   appVars, envVars, ctlVars, batVars, detections, cm, mgr, sel, trip, anim>>

\* AutomationManager.start_all_listeners: start_monitoring of every listener
start_all_listeners ==
    /\ cur = "none"
    /\ stopper.pc = "idle"
    /\ Starts(Listeners) # {}
    /\ StartMonitoring(Listeners)
    /\ stopper' = Started(stopper, Listeners, "all")
    /\ UNCHANGED <<current_game, current_network, is_idle, pending, seen,
                   appVars, envVars, ctlVars, batVars, detections, cm, mgr, sel, trip, anim>>

\* stop_monitoring suspends in `await self.monitoring_task` when the task is
\* not done; awaiting a task that is done raises CancelledError at once
Suspends(m) == monitoring_task[m] = "pending"

\* the index of the first monitor of seq whose stop_monitoring suspends
FirstSuspending(seq) ==
    IF \E i \in 1..Len(seq) : Suspends(seq[i])
      THEN CHOOSE i \in 1..Len(seq) :
             Suspends(seq[i]) /\ \A j \in 1..(i - 1) : ~Suspends(seq[j])
      ELSE 0

\* a variant of ScheduledAhead in which the cancelled task runs before the
\* tasks created earlier
NothingScheduledAhead == Len(SubSeq(pending, 1, 0))

\* the event loop runs its ready handles first in, first out: the tasks
\* _time_trigger_callback created before monitoring_task.cancel() run before
\* the cancelled task, which runs before the coroutine that awaits it
ScheduledAhead == Len(pending)

\* stop_monitoring of the monitors of seq in turn, by the coroutine whose
\* record is st, up to the first await that suspends
StopCalls(seq, st) ==
    LET k == FirstSuspending(seq)
        called == { seq[i] : i \in 1..(IF k = 0 THEN Len(seq) ELSE k) }
        finished == { seq[i] : i \in 1..(IF k = 0 THEN Len(seq) ELSE k - 1) }
    IN  /\ enabled' = [ m \in Monitors |-> IF m \in called THEN FALSE ELSE enabled[m] ]
        /\ monitoring_task' = IF k = 0 THEN monitoring_task
                              ELSE [ monitoring_task EXCEPT ![seq[k]] = "cancelling" ]
        /\ running' = IF k = 0 THEN running ELSE running \ {seq[k]}
        /\ stopper' = IF k = 0
                        THEN [ st EXCEPT !.pc = "idle", !.target = "none",
                                         !.rest = << >>, !.ahead = 0,
                                         !.returned = @ \cup finished,
                                         !.done_all = st.all \/ st.done_all,
                                         !.all = FALSE ]
                        ELSE [ st EXCEPT !.pc = "await", !.target = seq[k],
                                         !.rest = SubSeq(seq, k + 1, Len(seq)),
                                         !.ahead = ScheduledAhead,
                                         !.queued = ScheduledAhead,
                                         !.returned = @ \cup finished ]

\* stop_monitoring of one listener or of the BatteryManager
stop_monitoring ==
    /\ Calls
    /\ \E m \in {"time", "inactivity", "battery"} :
         StopCalls(<<m>>, [ stopper EXCEPT !.calls = @ + 1, !.all = FALSE,
                                           !.last = <<"stop", m, LoopState(m)>> ])
    /\ UNCHANGED <<loops, current_game, current_network, is_idle, pending, seen,
                   appVars, envVars, ctlVars, batVars, detections, cm, mgr, sel, trip, anim>>

\* AutomationManager.stop_all_listeners, up to its first await that suspends
stop_all_listeners ==
    /\ Calls
    /\ StopCalls(StopOrder, [ stopper EXCEPT !.calls = @ + 1, !.all = TRUE,
                                             !.last = <<"stop_all", "all", "none">> ])
    /\ UNCHANGED <<loops, current_game, current_network, is_idle, pending, seen,
                   appVars, envVars, ctlVars, batVars, detections, cm, mgr, sel, trip, anim>>

\* _monitoring_loop after monitoring_task.cancel(): the task is resumed with
\* CancelledError at the await it is suspended in (`except Exception` does
\* not catch it) and ends
LoopCancelled ==
    /\ cur = "none"
    /\ stopper.pc = "await"
    /\ stopper.ahead = 0
    /\ monitoring_task[stopper.target] = "cancelling"
    /\ monitoring_task' = [ monitoring_task EXCEPT ![stopper.target] = "done" ]
    /\ loops' = [ loops EXCEPT ![stopper.target] = @ - 1 ]
    /\ IF stopper.target \in Appliers /\ app[stopper.target].active
         THEN /\ app' = [ app EXCEPT ![stopper.target] = Idle ]
              /\ stopper' = [ stopper EXCEPT !.cut = @ \cup {stopper.target} ]
         ELSE UNCHANGED <<app, stopper>>
    /\ UNCHANGED <<enabled, dev, brightness, cur, alog, faults, napplies,
                   envVars, lsnVars, ctlVars, batVars, detections, cm, mgr, sel, trip, anim>>

\* the coroutine awaiting the cancelled task is resumed: stop_monitoring
\* returns, and stop_all_listeners goes on with the next listener
StopReturn ==
    /\ cur = "none"
    /\ stopper.pc = "await"
    /\ monitoring_task[stopper.target] = "done"
    /\ StopCalls(stopper.rest, [ stopper EXCEPT !.returned = @ \cup {stopper.target} ])
    /\ UNCHANGED <<loops, current_game, current_network, is_idle, pending, seen,
                   appVars, envVars, ctlVars, batVars, detections, cm, mgr, sel, trip, anim>>

\* what psutil.process_iter yields to the next check_triggers of the game
\* listener: a process starts (it is yielded last) or a process exits
process_iter ==
    /\ \E names \in
           { Append(sel.running_processes, n) :
               n \in IF Len(sel.running_processes) < MaxProcs
                       THEN {"cyberpunk2077.exe", "Valorant.exe", "blender.exe",
                             "code.exe", "steam.exe", "steamwebhelper.exe",
                             "unrealengine.exe", "chrome.exe"}
                       ELSE {} }
           \cup { SubSeq(sel.running_processes, 1, i - 1)
                    \o SubSeq(sel.running_processes, i + 1, Len(sel.running_processes)) :
                  i \in 1..Len(sel.running_processes) } :
         sel' = [ sel EXCEPT !.running_processes = names, !.best = "none",
                             !.applied = "None", !.done = FALSE ]
    /\ UNCHANGED <<appVars, envVars, lsnVars, ctlVars, batVars, lifeVars, detections, cm, mgr, trip, anim>>

\* GameAutoListener.check_triggers on that list: best_game, current_game and
\* the profile it passes to apply_profile ("None" when it applies nothing)
game_check_triggers ==
    /\ ~sel.done
    /\ LET detected == detected_games(sel.running_processes)
           best == BestGame(detected, priority_order)
       IN  sel' = IF detected # << >>
                    THEN IF best # "none" /\ sel.current_game # best
                           THEN [ sel EXCEPT !.best = best, !.current_game = best,
                                             !.applied = game_database[best].profile,
                                             !.done = TRUE ]
                           ELSE [ sel EXCEPT !.best = best, !.done = TRUE ]
                    ELSE IF sel.current_game # "none"
                           THEN [ sel EXCEPT !.current_game = "none", !.applied = "default",
                                             !.done = TRUE ]
                           ELSE [ sel EXCEPT !.done = TRUE ]
    /\ UNCHANGED <<appVars, envVars, lsnVars, ctlVars, batVars, lifeVars, detections, cm, mgr, trip, anim>>

\* AutomationManager.save_configuration: the enabled flag and the triggers
\* of every listener (of the triggers the model keeps those of the time
\* listener)
save_configuration ==
    /\ cur = "none"
    /\ stopper.pc = "idle"
    /\ mgr' = [ mgr EXCEPT !.file = [ exists |-> TRUE,
                                      enabled |-> [ l \in Listeners |-> enabled[l] ],
                                      time |-> mgr.triggers ] ]
    /\ UNCHANGED <<appVars, envVars, lsnVars, ctlVars, batVars, lifeVars, detections, cm, sel, trip, anim>>

\* a new process: AutomationManager() and initialize(), whose
\* load_configuration sets listener.enabled and calls add_trigger for every
\* saved trigger; the schedule of the new process has no job.  The device,
\* the environment and the files are those the old process left.
initialize ==
    /\ cur = "none"
    /\ stopper.pc = "idle"
    /\ \A t \in Appliers : ~app[t].active
    /\ pending = << >>
    /\ mgr.file.exists
    /\ ~mgr.loaded
    /\ mgr' = [ mgr EXCEPT !.loaded = TRUE,
                           !.disabled = { l \in Listeners : ~mgr.file.enabled[l] },
                           !.triggers = mgr.file.time, !.jobs = {} ]
    /\ monitoring_task' = [ m \in Monitors |-> "None" ]
    /\ enabled' = [ m \in Monitors |-> m \in Listeners /\ mgr.file.enabled[m] ]
    /\ loops' = [ m \in Monitors |-> 0 ]
    /\ stopper' = [ NoStopper EXCEPT !.calls = stopper.calls ]
    /\ running' = {}
    /\ current_game' = "none"
    /\ current_network' = "none"
    /\ is_idle' = FALSE
    /\ seen' = [ l \in PollingListeners |-> "none" ]
    /\ due' = << >>
    /\ detections' = << >>
    /\ UNCHANGED <<appVars, procs, cpuHigh, network, idle, nevents, pending,
                   ctlVars, batVars, cm, sel, trip, anim>>

\* BatteryManager._monitoring_loop: one apply_power_profile("auto") with the
\* ac_power_profile and battery_power_profile of BatterySettings(); is_ac is
\* what /sys/class/power_supply/ADP1/online reads
BatteryLoop ==
    /\ cur = "none"
    /\ monitoring_task["battery"] = "pending"
    /\ \E is_ac \in BOOLEAN :
         \E o1 \in KernelOutcomes("performance_mode"), o2 \in KernelOutcomes("cpu_pl2"),
            o3 \in KernelOutcomes("gpu_tgp") :
           /\ {o1, o2, o3} = {"ok"}
           /\ dev' = [ dev EXCEPT
                         !["performance_mode"] = IF is_ac THEN "performance" ELSE "quiet",
                         !["cpu_pl2"] = IF is_ac THEN 140 ELSE 90,
                         !["gpu_tgp"] = IF is_ac THEN 140 ELSE 80 ]
    /\ UNCHANGED <<brightness, app, cur, alog, faults, napplies,
                   envVars, lsnVars, ctlVars, batVars, lifeVars, detections, cm, mgr, sel, trip, anim>>

----------------------------------------------------------------------------
(* The listeners *)

\* a poll that calls apply_profile
Applies(l, name, cand) ==
    /\ StartApply(l, name, seen[l] = cand)
    /\ seen' = [ seen EXCEPT ![l] = cand ]

\* a poll that does not
Observes(l, cand) ==
    /\ seen' = [ seen EXCEPT ![l] = cand ]
    /\ UNCHANGED <<app, cur, alog>>

\* a variant of Polls in which the loop of a listener ends when an
\* application it started has failed
PollsUnlessFailed(l) ==
    /\ cur = "none"
    /\ l \in running
    /\ ~app[l].active
    /\ ~(alog.task = l /\ (~alog.ret \/ alog.failed # {} \/ alog.raisedBy # "none"))

\* the monitoring task of l wakes from its sleep and calls check_triggers
Polls(l) ==
    /\ cur = "none"
    /\ l \in running
    /\ ~app[l].active

\* a variant of GamePoll whose branch for no detected game leaves
\* current_game as it is
GamePollKeepsCurrent ==
    /\ Polls("game")
    /\ IF Detected(procs) # {}
         THEN /\ TypesDetected(procs) # {}
              /\ current_game # best_game(procs)
              /\ current_game' = best_game(procs)
              /\ Applies("game", game_database[best_game(procs)].profile, best_game(procs))
         ELSE /\ current_game # "none"
              /\ current_game' = current_game
              /\ Applies("game", "default", "none")
    /\ UNCHANGED <<dev, brightness, faults, napplies, envVars,
                   running, current_network, is_idle, pending, ctlVars, batVars, lifeVars, detections, cm, mgr, sel, trip, anim>>

\* GameAutoListener._monitoring_loop: one check_triggers
GamePoll ==
    /\ Polls("game")
    /\ IF Detected(procs) # {}
         THEN /\ TypesDetected(procs) # {}
              /\ current_game # best_game(procs)
              /\ current_game' = best_game(procs)
              /\ Applies("game", game_database[best_game(procs)].profile, best_game(procs))
         ELSE /\ current_game # "none"
              /\ current_game' = "none"
              /\ Applies("game", "default", "none")
    /\ UNCHANGED <<dev, brightness, faults, napplies, envVars,
                   running, current_network, is_idle, pending, ctlVars, batVars, lifeVars, detections, cm, mgr, sel, trip, anim>>

\* ProcessAutoListener._monitoring_loop: one check_triggers
ProcessPoll ==
    /\ Polls("process")
    /\ IF cpuHigh
         THEN Applies("process", ProcessTrigger.profile, ProcessTrigger.process_name)
         ELSE seen["process"] # "none" /\ Observes("process", "none")
    /\ UNCHANGED <<dev, brightness, faults, napplies, envVars,
                   running, current_game, current_network, is_idle, pending, ctlVars, batVars, lifeVars, detections, cm, mgr, sel, trip, anim>>

\* WiFiAutoListener._monitoring_loop: one check_triggers
WifiPoll ==
    /\ Polls("wifi")
    /\ network # current_network
    /\ current_network' = network
    /\ IF network \in DOMAIN WifiTriggers
         THEN Applies("wifi", WifiTriggers[network], network)
         ELSE Observes("wifi", network)
    /\ UNCHANGED <<dev, brightness, faults, napplies, envVars,
                   running, current_game, is_idle, pending, ctlVars, batVars, lifeVars, detections, cm, mgr, sel, trip, anim>>

\* the readings kept: as many as the smoothing window of the specification
VoteWindow == 5

\* a variant of IdlePoll that applies the trigger of every reading and
\* keeps no is_idle
IdlePollEveryReading ==
    /\ Polls("inactivity")
    /\ is_idle' = is_idle
    /\ detections' = IF Len(detections) < VoteWindow
                       THEN Append(detections, idle)
                       ELSE Append(Tail(detections), idle)
    /\ IF idle
         THEN Applies("inactivity", IdleTriggers.idle, "idle")
         ELSE Applies("inactivity", IdleTriggers.active, "active")
    /\ UNCHANGED <<dev, brightness, faults, napplies, envVars,
                   running, current_game, current_network, pending, ctlVars, batVars, lifeVars,
                   cm, mgr, sel, trip, anim>>

\* UserInactivityAutoListener._monitoring_loop: one check_triggers whose
\* reading differs from is_idle
IdlePoll ==
    /\ Polls("inactivity")
    /\ idle # is_idle
    /\ is_idle' = idle
    /\ detections' = IF Len(detections) < VoteWindow
                       THEN Append(detections, idle)
                       ELSE Append(Tail(detections), idle)
    /\ IF idle
         THEN Applies("inactivity", IdleTriggers.idle, "idle")
         ELSE Applies("inactivity", IdleTriggers.active, "active")
    /\ UNCHANGED <<dev, brightness, faults, napplies, envVars,
                   running, current_game, current_network, pending, ctlVars, batVars, lifeVars,
                   cm, mgr, sel, trip, anim>>

\* one check_triggers whose reading agrees with is_idle: neither branch is taken
IdlePollSame ==
    /\ Polls("inactivity")
    /\ idle = is_idle
    /\ detections' = IF Len(detections) < VoteWindow
                       THEN Append(detections, idle)
                       ELSE Append(Tail(detections), idle)
    /\ detections' # detections
    /\ UNCHANGED <<appVars, envVars, lsnVars, ctlVars, batVars, lifeVars, cm, mgr, sel, trip, anim>>

\* TimeAutoListener._monitoring_loop: run_pending calls _time_trigger_callback
\* for every due job, which creates a task for apply_profile(trigger.profile)
TimePoll ==
    /\ cur = "none"
    /\ "time" \in running
    /\ due # << >>
    /\ LET jobs == SelectSeq(due, LAMBDA tr : tr \in mgr.jobs)
       IN  pending' = pending \o [ i \in 1..Len(jobs) |-> TimeTriggers[jobs[i]] ]
    /\ due' = << >>
    /\ UNCHANGED <<procs, cpuHigh, network, idle, nevents, appVars,
                   running, current_game, current_network, is_idle, seen, ctlVars, batVars, lifeVars, detections, cm, mgr, sel, trip, anim>>

\* the event loop runs the oldest created time-trigger task
TimeTaskStart ==
    /\ cur = "none"
    /\ pending # << >>
    /\ LET i == CHOOSE k \in 1..MaxTimeTasks :
                  /\ ~app[TimeTaskNames[k]].active
                  /\ \A m \in 1..(k - 1) : app[TimeTaskNames[m]].active
       IN  StartApply(TimeTaskNames[i], Head(pending), FALSE)
    /\ pending' = Tail(pending)
    /\ stopper' = [ stopper EXCEPT !.ahead = IF @ > 0 THEN @ - 1 ELSE 0 ]
    /\ UNCHANGED <<dev, brightness, faults, napplies, envVars,
                   running, current_game, current_network, is_idle, seen, ctlVars, batVars,
                   monitoring_task, enabled, loops, detections, cm, mgr, sel, trip, anim>>

Next ==
    \/ start_all_listeners
    \/ StartProcess
    \/ StopProcess
    \/ CpuChange
    \/ NetworkChange
    \/ IdleChange
    \/ ClockReaches
    \/ GamePoll
    \/ ProcessPoll
    \/ WifiPoll
    \/ IdlePoll
    \/ TimePoll
    \/ TimeTaskStart
    \/ \E t \in Appliers \ {"main"} : AppStep(t)
    \/ \E t \in Appliers \ {"main"} : AppReturn(t)

\* the automation system of main(): the listeners, their triggers, the
\* environment they watch
Spec == Init /\ [][Next]_vars

NextCtl ==
    \/ set_power_limit
    \/ set_performance_mode
    \/ reset_to_defaults
    \/ set_brightness

\* the two hardware controllers called in any order with any arguments
SpecCtl == Init /\ [][NextCtl]_vars

NextCli ==
    \/ cli_set_power_limit
    \/ cli_set_fan_speed

\* the command line setters called in any order with any arguments
SpecCli == Init /\ [][NextCli]_vars

NextConfig ==
    \/ NewConfigManager
    \/ Assign({"PERFORMANCE"}, {90, 95}, {130}, {})
    \/ save
    \/ save_profile
    \/ load_profile

\* the ConfigManagers constructed on one directory and their callers
SpecConfig == Init /\ [][NextConfig]_vars

NextProfiles ==
    \/ NewConfigManager
    \/ Assign({}, {90}, {}, {})
    \/ import_config
    \/ load_profile
    \/ delete_profile
    \/ config_reset_to_defaults

\* a ConfigManager whose caller imports configurations with profiles
SpecProfiles == Init /\ [][NextProfiles]_vars

NextBackup ==
    \/ NewConfigManager
    \/ Assign({}, {85, 90}, {}, {FALSE})
    \/ save
    \/ Tick

\* a ConfigManager whose caller saves again and again
SpecBackup == Init /\ [][NextBackup]_vars

\* the same state with a device whose writes all succeed
InitStop == Constructed(MaxFaults)

NextStop ==
    \/ start_all_listeners
    \/ IdleChange
    \/ ClockReaches
    \/ IdlePoll
    \/ TimePoll
    \/ TimeTaskStart
    \/ \E t \in {"inactivity"} \cup TimeTasks : AppStep(t)
    \/ \E t \in {"inactivity"} \cup TimeTasks : AppReturn(t)
    \/ start_monitoring
    \/ stop_monitoring
    \/ stop_all_listeners
    \/ LoopCancelled
    \/ StopReturn

\* the monitors with the coroutine that starts and stops them, the clock and
\* the user's activity
SpecStop == InitStop /\ [][NextStop]_vars

NextSelect ==
    \/ process_iter
    \/ game_check_triggers

\* the polls of the game listener, each on the process list of its time
SpecSelect == Init /\ [][NextSelect]_vars

NextTrip ==
    \/ ~conservation_active /\ set_charge_threshold
    \/ enable_conservation_mode
    \/ disable_conservation_mode

\* conservation mode enabled and disabled, the charge threshold being set
\* only while conservation mode is off
SpecTrip == Init /\ [][NextTrip]_vars

NextAnimation ==
    \/ start_custom_animation
    \/ run_custom_animation
    \/ stop_animation
    \/ stop_animation_resumes

\* the custom animations of one LinuxRGBController and their callers
SpecAnimation == Init /\ [][NextAnimation]_vars

NextReload ==
    \/ start_all_listeners
    \/ stop_all_listeners
    \/ LoopCancelled
    \/ StopReturn
    \/ save_configuration
    \/ initialize
    \/ IdleChange
    \/ ClockReaches
    \/ IdlePoll
    \/ TimePoll
    \/ TimeTaskStart
    \/ \E t \in {"inactivity"} \cup TimeTasks : AppStep(t)
    \/ \E t \in {"inactivity"} \cup TimeTasks : AppReturn(t)

\* main() up to its save_configuration, then a new process whose
\* AutomationManager loads what was saved
SpecReload == InitStop /\ [][NextReload]_vars

NextPower ==
    \/ start_monitoring
    \/ CallApplyProfile
    \/ AppStep("main")
    \/ AppReturn("main")
    \/ BatteryLoop

\* profiles applied by the automation while the BatteryManager monitors
SpecPower == InitStop /\ [][NextPower]_vars

NextIdle ==
    \/ start_all_listeners
    \/ UserActivity
    \/ IdlePoll
    \/ IdlePollSame
    \/ AppStep("inactivity")
    \/ AppReturn("inactivity")

\* the inactivity listener and the user's activity
SpecIdle == InitStop /\ [][NextIdle]_vars

NextLive ==
    \/ start_all_listeners
    \/ StartProcess
    \/ StopProcess
    \/ IdleChange
    \/ GamePoll
    \/ IdlePoll
    \/ \E t \in {"game", "inactivity"} : AppStep(t)
    \/ \E t \in {"game", "inactivity"} : AppReturn(t)

\* the game and the inactivity listener, the processes and the user's
\* activity they watch, with a scheduler that lets every task run:
\* every asyncio.sleep of a monitoring loop ends (2 s, 5 s after an error) and
\* every blocking call of an application returns (subprocess.run has
\* timeout=5), so a poll that has something to apply and a call that is due
\* are not postponed for ever
SpecLive ==
    /\ Init /\ [][NextLive]_vars
    /\ WF_vars(GamePoll)
    /\ WF_vars(IdlePoll)
    /\ \A t \in {"game", "inactivity"} : WF_vars(AppStep(t)) /\ WF_vars(AppReturn(t))


NextBattery ==
    \/ EditConfigFile
    \/ load_settings
    \/ set_charge_threshold
    \/ apply_settings

\* one BatteryManager and the battery.json it loads
SpecBattery == Init /\ [][NextBattery]_vars

----------------------------------------------------------------------------
(* Properties of the automation system *)

InFlight == { t \in Appliers : app[t].active }

\* C1: at most one profile application is in flight at any moment, and the
\* writes of one application are not interleaved with those of another: a
\* task inside _apply_hardware_profile is the one that started last and it
\* holds the event loop.
C1_OneApplicationInFlight ==
    /\ Cardinality(InFlight) <= 1
    /\ \A t \in InFlight :
         /\ cur = t
         /\ alog.task = t
         /\ alog.prof = app[t].prof
         /\ alog.status = "running"

\* the game listener is in the middle of its writes while a created
\* time-trigger task waits for the loop
C1_Witness ==
    /\ app["game"].active
    /\ app["game"].pc > 3
    /\ pending # << >>

\* C2: while the game a game-detection profile was applied for keeps
\* running, no time-trigger task applies another profile in its place.
C2_TimeTriggerKeepsGameProfile ==
    ~ /\ alog.task \in TimeTasks
      /\ alog.status = "returned"
      /\ alog.replaced \notin {"none", alog.prof}
      /\ current_game \in procs
      /\ \A n \in KernelParamSet : alog.pre[n] = Target(Profiles[alog.replaced], n)
      /\ \A n \in KernelParamSet : alog.left[n] = Target(Profiles[alog.prof], n)
      /\ alog.left # alog.pre

\* C10: every polling listener is debounced: it does not apply a profile
\* from a poll that observed the candidate its previous poll observed.
C10_EverySourceDebounced ==
    alog.repeat = FALSE

----------------------------------------------------------------------------
(* Properties of the hardware controllers *)

\* C8: the recorded brightness is in 0..100 and the recorded power limit in
\* 60..140 in every state, and a call whose write of the value did not
\* succeed leaves the recorded value as it was before the call.
C8_RecordedValuesInDomain ==
    /\ brightness \in 0..100
    /\ current_settings.power_limit \in 60..140
    /\ (ctl.op # "none" /\ ctl.power_write # "ok")
           => current_settings.power_limit = ctl.pre_power_limit
    /\ (ctl.op # "none" /\ ctl.brightness_write # "ok")
           => brightness = ctl.pre_brightness

\* a set_power_limit call with an argument in range whose command failed,
\* made when the recorded power limit was no longer the initial one
C8_Witness ==
    /\ ctl.op = "set_power_limit"
    /\ ctl.power_write = "failed"
    /\ ctl.arg # ctl.pre_power_limit
    /\ ctl.pre_power_limit # 115
    /\ brightness # 75

----------------------------------------------------------------------------
(* Properties of the battery manager *)

\* C9: BatteryManager.settings.charge_threshold is in 50..100 in every state.
C9_ChargeThresholdInDomain ==
    settings.charge_threshold \in 50..100

----------------
(* Properties of one profile application *)

\* the profile of the application recorded in alog
LoggedProfile == Profiles[alog.prof]

Applied == alog.status = "returned" /\ alog.prof \in DOMAIN Profiles

Range(s) == { s[i] : i \in 1..Len(s) }

\* C3: a profile with an out-of-range value or an unknown parameter name is
\* rejected before any device write: its application issues no write.
C3_InvalidProfileIssuesNoWrite ==
    LET \* a profile every value of which is in its declared domain and
        \* every parameter of which is a control file of the device
        ValidProfile(p) ==
          /\ \A n \in DeviceParams : InDomain(n, Target(p, n))
          /\ \A i \in 1..Len(p.custom_settings) : p.custom_settings[i][1] \in DeviceParams
    IN  (alog.prof \in DOMAIN Profiles /\ ~ValidProfile(LoggedProfile))
          => alog.issued = << >>

\* C4: when the write of one parameter fails, whatever the failure, the
\* writes of the remaining parameters of the profile are still attempted.
C4_FailureDoesNotStopRemainingWrites ==
    LET \* the parameters whose setter the application of p calls
        WritesOf(p) ==
          { Program(p)[i].param : i \in { j \in 1..Len(Program(p)) :
                                            Program(p)[j].op # "ai_start_monitoring" } }
    IN  (Applied /\ alog.failed # {})
          => WritesOf(LoggedProfile) \subseteq Range(alog.attempted)

\* C5: apply_profile never returns True for an application in which a
\* device write failed.
C5_NoSuccessAfterFailedWrite ==
    (Applied /\ alog.ret) => alog.failed = {}

\* C6: after a profile has been applied every device parameter holds the
\* value it had before the application or the value the profile specifies.
C6_OnlyPreOrTargetValues ==
    Applied =>
        \A n \in DeviceParams : alog.left[n] \in {alog.pre[n], Target(LoggedProfile, n)}

\* C7: within one application every fan-target and power-limit parameter of
\* the profile has been written before any RGB setter is called.
C7_ThermalBeforeRgb ==
    alog.prof \in DOMAIN Profiles =>
        \A i \in 1..Len(alog.attempted) :
            alog.attempted[i] \in {"rgb_mode", "rgb_brightness", "rgb_color"} =>
                \A n \in ThermalParams : \E j \in 1..(i - 1) : alog.attempted[j] = n

\* an application whose rgb_brightness write failed has returned and every
\* thermal parameter of the profile is on the device
C7_Witness ==
    /\ Applied
    /\ "rgb_brightness" \in Range(alog.issued)
    /\ "rgb_brightness" \in alog.failed
    /\ \A n \in ThermalParams : alog.left[n] = Target(LoggedProfile, n)
    /\ \E n \in ThermalParams : alog.pre[n] # alog.left[n]

----------------------------------------------------------------------------
(* Properties of starting and stopping *)

\* C11: every monitor follows Stopped -> Running -> Stopped: at any time at
\* most one monitoring loop task of a monitor exists, a start_monitoring
\* called on a Running monitor leaves exactly the one loop it had, and a
\* monitor whose stop_monitoring has returned has no loop task, is polled by
\* nothing and applies nothing.
C11_OneLoopPerMonitor ==
    \A m \in Monitors :
      /\ loops[m] <= 1
      /\ loops[m] = 1 <=> LoopState(m) = "Running"
      /\ stopper.last = <<"start", m, "Running">> => loops[m] = 1
      /\ m \in stopper.returned =>
           /\ loops[m] = 0
           /\ m \notin running
           /\ m \in Appliers => ~app[m].active

\* a start_monitoring was called on a Running monitor after the
\* stop_monitoring of a monitor that had been Running returned
C11_Witness ==
    /\ stopper.last[1] = "start"
    /\ stopper.last[3] = "Running"
    /\ \E m \in stopper.returned : monitoring_task[m] = "done"

\* C12: stopping a source takes effect at a safe point: no monitoring loop
\* is cancelled inside a profile application (the loop that is cancelled is
\* suspended in its sleep), and once stop_monitoring of a source has returned
\* no application of that source is in progress or still to run, the tasks
\* created by TimeAutoListener._time_trigger_callback included, so the source
\* issues no further device write.
C12_StopAtSafePoint ==
    /\ stopper.cut = {}
    /\ stopper.pc = "await" /\ stopper.target \in Appliers => ~app[stopper.target].active
    /\ \A l \in stopper.returned \cap Listeners :
         /\ l \in Appliers => ~app[l].active
         /\ l = "time" => pending = << >> /\ \A t \in TimeTasks : ~app[t].active

\* stop_monitoring of the Running time listener has returned, and tasks its
\* trigger callback had created were still to run when it cancelled the loop
C12_Witness ==
    /\ stopper.pc = "idle"
    /\ stopper.last = <<"stop", "time", "Running">>
    /\ "time" \in stopper.returned
    /\ stopper.queued > 0
    /\ alog.task \in TimeTasks
    /\ Len(alog.issued) > 0

\* C14: after stop_all_listeners has returned every listener is stopped (its
\* loop task has ended, it is disabled, nothing polls it), no profile
\* application is in flight or still to run, and as long as no listener is
\* started again no application starts and the device is not written.
C14_StopAllDrains ==
    /\ [](stopper.done_all =>
            /\ \A l \in Listeners :
                 LoopState(l) = "Stopped" /\ ~enabled[l] /\ l \notin running
            /\ InFlight = {}
            /\ pending = << >>)
    /\ [][stopper.done_all /\ stopper'.done_all =>
            app' = app /\ alog' = alog /\ dev' = dev /\ pending' = pending]_vars

\* stop_all_listeners has returned after it cancelled the five running loops,
\* and a listener had applied a profile before
C14_Witness ==
    /\ stopper.done_all
    /\ stopper.last[1] = "stop_all"
    /\ \A l \in Listeners : monitoring_task[l] = "done"
    /\ alog.status = "returned"
    /\ Len(alog.issued) > 0

----------------------------------------------------------------------------
(* Properties of the monitoring loops after a failure *)

\* the latest application was started by listener l for profile p, has
\* returned, and failed: the profile was not found, a setter raised into
\* _apply_hardware_profile, or a device write did not store its value
FailedApplication(l, p) ==
    /\ alog.task = l
    /\ alog.prof = p
    /\ alog.status = "returned"
    /\ ~alog.ret \/ alog.failed # {} \/ alog.raisedBy # "none"

\* the profile the next check_triggers of l applies, "none" if it applies none
Would(l) ==
    IF l = "game"
      THEN IF Detected(procs) # {}
             THEN IF TypesDetected(procs) # {} /\ current_game # best_game(procs)
                    THEN game_database[best_game(procs)].profile
                    ELSE "none"
             ELSE IF current_game # "none" THEN "default" ELSE "none"
      ELSE IF idle # is_idle
             THEN IF idle THEN IdleTriggers.idle ELSE IdleTriggers.active
             ELSE "none"

\* the profiles check_triggers of l can apply
TriggerProfiles(l) ==
    IF l = "game"
      THEN { game_database[g].profile : g \in GameProcs } \cup {"default"}
      ELSE { IdleTriggers.idle, IdleTriggers.active }

----------------------------------------------------------------------------
(* Properties of the inactivity listener *)

\* C15: the idle/active source decides by majority vote over its last 5
\* detections: whenever a poll that completes or follows a window of 5
\* detections changes is_idle (and applies the profile of the new state), the
\* new state is the reading of more than half of these 5 detections, so one
\* reading surrounded by opposite readings causes no profile switch.
C15_IdleByMajorityVote ==
    [][is_idle' # is_idle /\ Len(detections') = VoteWindow =>
         LET votes == Cardinality({ i \in 1..VoteWindow : detections'[i] })
         IN  IF is_idle' THEN 2 * votes > VoteWindow ELSE 2 * votes < VoteWindow]_vars

----------------------------------------------------------------------------
(* Properties of a single parameter write *)

\* C16: a parameter write that times out is attempted 1 + retry_count times,
\* 3 with the default of 2 retries, before the failure is surfaced: when
\* set_charge_threshold has returned failure because subprocess.run raised
\* TimeoutExpired, subprocess.run was called exactly 3 times for the write.
C16_TimedOutWriteAttemptedThreeTimes ==
    bcall.raised = "TimeoutExpired" => bcall.runs = 1 + 2

----------------------------------------------------------------------------
(* Properties of the command line *)

\* C17: validation accepts a value iff it lies in the declared domain:
\* set_power_limit goes on to the write exactly for cpu_pl1 in 15..55,
\* cpu_pl2 in 55..140 and gpu_tgp in 60..140, set_fan_speed exactly for fan 1
\* or 2 and a speed in 0..100; a rejected request changes no control file
\* and runs no write.
C17_CliValidatesDomain ==
    /\ [](ctl.op = "cli_set_power_limit" =>
            (ctl.power_write # "none" <=>
               \/ ctl.mode = "cpu_pl1" /\ ctl.arg \in 15..55
               \/ ctl.mode = "cpu_pl2" /\ ctl.arg \in 55..140
               \/ ctl.mode = "gpu_tgp" /\ ctl.arg \in 60..140))
    /\ [](ctl.op = "cli_set_fan_speed" =>
            (ctl.power_write # "none" <=>
               ctl.mode \in {"fan1_target", "fan2_target"} /\ ctl.arg \in 0..100))
    /\ [][ctl' # ctl /\ ctl'.power_write = "none" => dev' = dev /\ faults' = faults]_vars

\* set_power_limit("cpu_pl1", 56) was rejected after set_power_limit("cpu_pl1", 55)
\* had been written, and a fan speed of 100 had been written too
C17_Witness ==
    /\ ctl.op = "cli_set_power_limit"
    /\ ctl.mode = "cpu_pl1"
    /\ ctl.arg = 56
    /\ ctl.power_write = "none"
    /\ dev["cpu_pl1"] = 55
    /\ dev["fan2_target"] = 100

----------------------------------------------------------------------------
(* Properties of the configuration *)

\* C18: save() returns True, and a ConfigManager constructed on a directory
\* whose config.json exists observes exactly the configuration that was
\* current when the file was written.
C18_SaveLoadRoundTrip ==
    /\ cm.ret.op = "save" => cm.ret.ok
    /\ cm.ret.op = "ConfigManager" => cm.ret.ok /\ cm.config = cm.saved

\* a new ConfigManager loaded a file saved with a performance mode, a CPU
\* temperature target and a GPU power limit that are not the defaults
C18_Witness ==
    /\ cm.ret.op = "ConfigManager"
    /\ ~cm.ret.default
    /\ cm.config.performance_mode = "PERFORMANCE"
    /\ cm.config.thermal.cpu_temp_target = 90
    /\ cm.config.gpu.power_limit = 130

\* C19: save_profile(name) returns True and makes name appear in
\* list_profiles().
C19_SaveProfileStoresSnapshot ==
    cm.ret.op = "save_profile" =>
      cm.ret.ok /\ cm.ret.name \in DOMAIN cm.config.profiles

\* C20: when the product name detected is that of a Legion Slim 7i Gen 9
\* (16IRX9), the default configuration a ConfigManager creates has
\* hardware_profile LEGION_GEN9_16IRX9, thermal.cpu_temp_target 95 and
\* gpu.power_limit 140.
C20_Gen9Defaults ==
    cm.ret.op = "ConfigManager" /\ cm.ret.default /\ cm.model.is16IRX9 =>
      /\ cm.config.hardware_profile = "LEGION_GEN9_16IRX9"
      /\ cm.config.thermal.cpu_temp_target = 95
      /\ cm.config.gpu.power_limit = 140

\* C21: delete_profile(name) returns True and removes name from
\* list_profiles() when the profile exists; when it does not exist it
\* returns False and leaves the profiles and the active profile as they were.
C21_DeleteProfile ==
    [][cm'.ret.op = "delete_profile" /\ cm' # cm =>
         LET name == cm'.ret.name
         IN  IF name \in DOMAIN cm.config.profiles
               THEN cm'.ret.ok /\ name \notin DOMAIN cm'.config.profiles
               ELSE /\ ~cm'.ret.ok
                    /\ cm'.config.profiles = cm.config.profiles
                    /\ cm'.config.active_profile = cm.config.active_profile]_vars

\* the active profile "gaming" of an imported configuration was deleted
\* and the deletion was saved
C21_Witness ==
    /\ cm.ret = Returned("delete_profile", TRUE, "gaming", FALSE)
    /\ DOMAIN cm.config.profiles = {}
    /\ cm.config.active_profile = "default"
    /\ cm.file.active_profile = "default"
    /\ 0 \in DOMAIN cm.backups
    /\ cm.backups[0].active_profile = "gaming"

\* C22: reset_to_defaults() returns True and leaves the configuration equal
\* to the default configuration of the machine, with no profile, whatever
\* was modified or imported before.
C22_ResetToDefaults ==
    cm.ret.op = "reset_to_defaults" =>
      /\ cm.ret.ok
      /\ cm.config = DefaultConfig(cm.model)
      /\ DOMAIN cm.config.profiles = {}
      /\ cm.config.thermal.cpu_temp_target = LegionConfig.thermal.cpu_temp_target

\* the reset replaced a configuration with profiles whose active profile
\* "work" had lowered the CPU temperature target
C22_Witness ==
    /\ cm.ret.op = "reset_to_defaults"
    /\ 0 \in DOMAIN cm.backups
    /\ DOMAIN cm.backups[0].profiles = {"gaming", "work"}
    /\ cm.backups[0].active_profile = "work"
    /\ cm.backups[0].thermal.cpu_temp_target = 75

\* C23: with backup_settings enabled, a save() that overwrites config.json
\* leaves a backup of the file it overwrote, and the backup directory never
\* holds more than 10 backups.
C23_BackupsKeptAndBounded ==
    /\ [](Cardinality(DOMAIN cm.backups) <= 10)
    /\ [][save /\ cm.exists /\ cm.config.backup_settings =>
            \E t \in DOMAIN cm'.backups : cm'.backups[t] = cm.file]_vars

\* the twelfth second in which a changed configuration was saved: the
\* backups of the first two seconds are gone
C23_Witness ==
    /\ cm.ret.op = "save"
    /\ cm.clock = 11
    /\ DOMAIN cm.backups = 2..11
    /\ cm.backups[11] # cm.file
    /\ cm.backups[10] # cm.backups[11]

\* C24: a listener that was started and then stopped can be started again:
\* once start_monitoring of a listener has returned, its monitoring loop is
\* running, also when the listener had been stopped before.
C24_RestartAfterStop ==
    stopper.last[1] = "start" /\ stopper.last[2] \in Listeners =>
      /\ LoopState(stopper.last[2]) = "Running"
      /\ stopper.last[2] \in running

(* Properties of the game listener *)

\* C25: whenever a game is current and no running process selects a profile,
\* a poll of the game listener clears current_game and applies "default";
\* it applies "default" only in the poll that clears current_game, so once
\* until another game has been detected.
C25_DefaultOnceWhenGameEnds ==
    /\ (current_game # "none" /\ Detected(procs) = {})
          ~> (current_game = "none" \/ Detected(procs) # {})
    /\ [][current_game # "none" /\ current_game' = "none" =>
            ~app["game"].active /\ app'["game"].active /\ app'["game"].prof = "default"]_vars
    /\ [][~app["game"].active /\ app'["game"].active /\ app'["game"].prof = "default" =>
            current_game # "none" /\ current_game' = "none" /\ Detected(procs) = {}]_vars

\* the game has exited after its profile had set the fans to 100, and the
\* game listener is applying "default" with no game current
C25_Witness ==
    /\ procs = {}
    /\ current_game = "none"
    /\ app["game"].active
    /\ app["game"].prof = "default"
    /\ alog.pre["fan1_target"] = 100

\* C26: the game listener records a detected game as current only if
\* apply_profile for the profile the game selects succeeded: the profile
\* is in the listener's profiles, and the apply_profile the poll awaited
\* did not return False.
C26_CurrentOnlyIfApplied ==
    current_game # "none" =>
      /\ game_database[current_game].profile \in DOMAIN Profiles
      /\ alog.task = "game" /\ alog.prof = game_database[current_game].profile
            /\ alog.status = "returned" => alog.ret

\* C27: every key of a profile's custom_settings is written to the kernel
\* parameter interface on each application of the profile, whatever its
\* other fields (here: in every application in which no write to the
\* device raised).
C27_CustomSettingsWritten ==
    alog.status = "returned" /\ alog.prof \in DOMAIN Profiles /\ alog.raisedBy = "none" =>
      \A i \in 1..Len(Profiles[alog.prof].custom_settings) :
        \E j \in 1..Len(alog.attempted) :
          alog.attempted[j] = Profiles[alog.prof].custom_settings[i][1]

(* Properties of the power limits *)

\* C28: once the automation has applied a profile, and until another
\* profile is applied, cpu_pl2 and gpu_tgp keep the values the profile
\* specifies, also while the monitoring loop of the BatteryManager runs.
C28_PowerLimitsKept ==
    /\ alog.status = "returned"
    /\ alog.prof \in DOMAIN Profiles
    /\ \A n \in {"cpu_pl2", "gpu_tgp"} :
         /\ \E j \in 1..Len(alog.issued) : alog.issued[j] = n
         /\ n \notin alog.failed
    => \A n \in {"cpu_pl2", "gpu_tgp"} : dev[n] = Target(Profiles[alog.prof], n)

(* Properties of the saved automation configuration *)

\* C29: a listener whose saved configuration has enabled = false applies no
\* profile: after load_configuration has set its enabled flag to false,
\* start_all_listeners does not make it evaluate triggers or apply profiles.
C29_DisabledListenerStaysOff ==
    \A l \in mgr.disabled :
      /\ l \notin running
      /\ l \in Appliers => ~app[l].active

\* C30: a time trigger that was saved by one AutomationManager and loaded
\* by a new one still has its profile applied when its time is reached
\* while the time listener runs: the run_pending that follows creates the
\* task that applies it.
C30_TimeTriggerSurvivesReload ==
    [][/\ "time" \in running /\ "time" \in running'
       /\ due # << >> /\ due' = << >>
       => /\ Len(pending') = Len(pending) + Len(due)
          /\ \A i \in 1..Len(due) : pending'[Len(pending) + i] = TimeTriggers[due[i]]]_vars

(* Properties of the selection of the game listener *)

\* C31: check_triggers selects, among the detected known processes that
\* have a profile, the first detected one of the type that is highest in
\* game > creative > development > launcher: nothing when no detected
\* process has one of these types, never a launcher's or a development
\* tool's profile while a process of type game is detected, and the profile
\* it applies is the selected process's.
C31_HighestTypeFirstDetected ==
    LET rp == sel.running_processes
        name(i) == lower(rp[i])
        type(i) == game_database[name(i)].type
        Rank(t) == CHOOSE k \in 1..Len(priority_order) : priority_order[k] = t
        ranked == { i \in 1..Len(rp) :
                      /\ name(i) \in DOMAIN game_database
                      /\ game_database[name(i)].profile # "None"
                      /\ \E k \in 1..Len(priority_order) : priority_order[k] = type(i) }
    IN  sel.done =>
          /\ ranked = {} => sel.best = "none"
          /\ ranked # {} =>
                \E i \in ranked :
                  /\ sel.best = name(i)
                  /\ \A j \in ranked : Rank(type(i)) <= Rank(type(j))
                  /\ \A j \in ranked : type(j) = type(i) => i <= j
          /\ (\E i \in ranked : type(i) = "game") => game_database[sel.best].type = "game"
          /\ sel.applied \notin {"None", "default"} =>
                sel.applied = game_database[sel.best].profile

\* a launcher and a development tool precede a game in the process list,
\* and the game's profile is the one applied
C31_Witness ==
    /\ sel.done
    /\ sel.running_processes = <<"steam.exe", "code.exe", "Valorant.exe">>
    /\ sel.best = "valorant.exe"
    /\ sel.applied = "gaming_esports"

(* Properties of the inactivity listener *)

\* C32: with both triggers of add_idle_trigger enabled, the applications
\* of the inactivity listener alternate idle profile, active profile, idle
\* profile, ..., starting with the idle profile: its first application is
\* of the idle profile, and every later one is of the other profile than
\* its previous one.
C32_IdleActiveAlternate ==
    [][~app["inactivity"].active /\ app["inactivity"].active'
       => IF alog.task = "inactivity"
            THEN /\ {alog.prof, alog'.prof} = {IdleTriggers.idle, IdleTriggers.active}
                 /\ alog'.prof # alog.prof
            ELSE alog'.prof = IdleTriggers.idle]_vars

\* the idle profile is being applied for the second time: polls before
\* this one read idle and then active, and applied the idle and the active
\* profile
C32_Witness ==
    /\ app["inactivity"].active
    /\ alog.task = "inactivity"
    /\ alog.prof = IdleTriggers.idle
    /\ is_idle
    /\ \E i, j \in 1..Len(detections) :
         /\ i < j /\ j < Len(detections)
         /\ detections[i] /\ ~detections[j] /\ detections[Len(detections)]

(* Properties of the recorded GPU settings *)

\* C33: set_performance_mode is all-or-nothing on current_settings: when
\* it returns False current_settings is what it was before the call, and
\* when it returns True current_settings is the preset of the requested
\* mode.
C33_PerformanceModeAllOrNothing ==
    [][set_performance_mode /\ ctl'.op = "set_performance_mode"
       => /\ ctl'.ret = "False" => current_settings' = current_settings
          /\ ctl'.ret = "True" => current_settings' = mode_settings[ctl'.mode]]_vars

(* Properties of conservation mode *)

\* C34: enable_conservation_mode followed by disable_conservation_mode,
\* both returning True, writes back the charge threshold that was in effect
\* before enabling (100 only when no threshold could be read), leaves
\* conservation_active and settings.conservation_mode false, and leaves
\* settings.charge_threshold as it was before enabling.
C34_ConservationRoundTrip ==
    [][trip.stage = "enabled" /\ trip'.stage = "disabled"
       => /\ \/ battery_charge_threshold' = trip.threshold
             \/ ~trip.read /\ battery_charge_threshold' = 100
          /\ ~conservation_active'
          /\ ~settings'.conservation_mode
          /\ settings'.charge_threshold = trip.charge_threshold]_vars

(* Properties of the custom animations *)

\* C35: at most one custom animation loop is active at any time, and once
\* start_custom_animation has been called while an animation is running
\* the previous loop issues no further zone write: a task that writes a
\* zone is the latest task created.
C35_OneAnimationLoop ==
    /\ [](Cardinality({ k \in 1..Len(anim.tasks) :
                          anim.tasks[k].at # "done" /\ ~anim.tasks[k].cancelled }) <= 1)
    /\ [][\A k \in 1..Len(anim.tasks) :
            anim'.tasks[k].writes > anim.tasks[k].writes => k = Len(anim.tasks)]_vars

====
